---- MODULE Spec2Model ----
(***************************************************************************)
(* A model of the RAG documentation pipeline: the two provider registries  *)
(* (modules/vector_db_factory.py, modules/llm_factory.py), the vector-DB   *)
(* providers' initialize, and the eight-stage orchestrator                 *)
(* DocumentationService.generate_documentation.                            *)
(***************************************************************************)
EXTENDS Integers, Sequences, FiniteSets, TLC

\* ------------------------------------------------------------------ values

\* Python's None, and os.getenv's answer for a variable that is not set.
None == "None"
Unset == "<unset>"

\* bool(v) of an Optional[str]
Truthy(v) == v # None /\ v # ""

\* os.getenv(name) / os.getenv(name, default) on the environment e
Getenv(e, name, default) == IF e[name] = Unset THEN default ELSE e[name]

\* A call's outcome: a returned value or a raised exception (type, str(e)).
\* Messages are sequences of text fragments; concatenation is \o.
Return(v) == [kind |-> "return", value |-> v, type |-> "", msg |-> <<>>]
Raise(t, m) == [kind |-> "raise", value |-> None, type |-> t, msg |-> m]
NoCall == [kind |-> "none", value |-> None, type |-> "", msg |-> <<>>]

\* a collaborator call that raises nothing
NoFault == NoCall

\* a occurs in b as a contiguous run of fragments (Python's `a in b`)
IsInfix(a, b) ==
    \E i \in 0..(Len(b) - Len(a)) :
        \A k \in 1..Len(a) : b[i + k] = a[k]

\* ------------------------------------------------------- the environment

EnvVars ==
    {"PINECONE_API_KEY", "QDRANT_URL", "GEMINI_API_KEY", "OPENAI_API_KEY",
     "AZURE_OPENAI_API_KEY", "AZURE_OPENAI_ENDPOINT",
     "AZURE_OPENAI_DEPLOYMENT_NAME", "AZURE_OPENAI_EMBEDDING_DEPLOYMENT"}

\* a variable is not set, set to the empty string, or set to a value
EnvValues == {Unset, "", "v"}

AllEnvs == [EnvVars -> EnvValues]

\* ------------------------------------------------ provider descriptors

PineconeProvider(e) == [api_key |-> Getenv(e, "PINECONE_API_KEY", None)]

FaissProvider(e) == [local |-> TRUE]

QdrantProvider(e) == [url |-> Getenv(e, "QDRANT_URL", "http://localhost:6333")]

GeminiProvider(e) == [api_key |-> Getenv(e, "GEMINI_API_KEY", None)]

OpenAIProvider(e) == [api_key |-> Getenv(e, "OPENAI_API_KEY", None)]

AzureOpenAIProvider(e) ==
    [api_key |-> Getenv(e, "AZURE_OPENAI_API_KEY", None),
     endpoint |-> Getenv(e, "AZURE_OPENAI_ENDPOINT", None),
     deployment_name |-> Getenv(e, "AZURE_OPENAI_DEPLOYMENT_NAME", None),
     embedding_deployment |-> Getenv(e, "AZURE_OPENAI_EMBEDDING_DEPLOYMENT", None)]

\* the registries' keys, in insertion order
VdbNames == <<"pinecone", "faiss", "qdrant">>
LlmNames == <<"gemini", "openai", "azure_openai">>

Range(s) == {s[i] : i \in DOMAIN s}

\* _PROVIDERS of vector_db_factory, built from the environment e
VDB_PROVIDERS(e) ==
    [n \in Range(VdbNames) |->
        CASE n = "pinecone" -> PineconeProvider(e)
          [] n = "faiss" -> FaissProvider(e)
          [] n = "qdrant" -> QdrantProvider(e)]

\* _PROVIDERS of llm_factory, built from the environment e
LLM_PROVIDERS(e) ==
    [n \in Range(LlmNames) |->
        CASE n = "gemini" -> GeminiProvider(e)
          [] n = "openai" -> OpenAIProvider(e)
          [] n = "azure_openai" -> AzureOpenAIProvider(e)]

PineconeIsConfigured(d) == Truthy(d.api_key)
FaissIsConfigured(d) == TRUE
QdrantIsConfigured(d) == Truthy(d.url)
GeminiIsConfigured(d) == Truthy(d.api_key)
OpenAIIsConfigured(d) == Truthy(d.api_key)
AzureIsConfigured(d) ==
    Truthy(d.api_key) /\ Truthy(d.endpoint) /\ Truthy(d.deployment_name)

\* provider.is_configured() of the descriptor registered under n
vdb_is_configured(P, n) ==
    CASE n = "pinecone" -> PineconeIsConfigured(P[n])
      [] n = "faiss" -> FaissIsConfigured(P[n])
      [] n = "qdrant" -> QdrantIsConfigured(P[n])

llm_is_configured(P, n) ==
    CASE n = "gemini" -> GeminiIsConfigured(P[n])
      [] n = "openai" -> OpenAIIsConfigured(P[n])
      [] n = "azure_openai" -> AzureIsConfigured(P[n])

\* a resolved provider: its registered name and descriptor
Provider(P, n) == [name |-> n, desc |-> P[n]]

get_vector_database_provider_unchecked(P, provider_name) ==
    IF provider_name \notin DOMAIN P
    THEN Raise("ValueError",
               <<"Unsupported vector database provider: ", provider_name>>)
    ELSE Return(Provider(P, provider_name))

get_vector_database_provider(P, provider_name) ==
    IF provider_name \notin DOMAIN P
    THEN Raise("ValueError",
               <<"Unsupported vector database provider: ", provider_name>>)
    ELSE IF ~vdb_is_configured(P, provider_name)
    THEN Raise("ValueError",
               <<"Vector database provider '", provider_name,
                 "' is not properly configured">>)
    ELSE Return(Provider(P, provider_name))

get_llm_provider(P, provider_name) ==
    IF provider_name \notin DOMAIN P
    THEN Raise("ValueError", <<"Unsupported LLM provider: ", provider_name>>)
    ELSE IF ~llm_is_configured(P, provider_name)
    THEN Raise("ValueError",
               <<"LLM provider '", provider_name,
                 "' is not properly configured">>)
    ELSE Return(Provider(P, provider_name))

\* list(_PROVIDERS.keys()): the registered names in insertion order
list_available_providers(P) ==
    LET registered(n) == n \in DOMAIN P IN SelectSeq(VdbNames, registered)

list_available_llm_providers(P) ==
    LET registered(n) == n \in DOMAIN P IN SelectSeq(LlmNames, registered)

vdb_configured_first_only(P) ==
    LET ok(n) == vdb_is_configured(P, n)
        s == SelectSeq(VdbNames, ok)
    IN  IF Len(s) > 1 THEN <<s[1]>> ELSE s

\* get_configured_providers of vector_db_factory
vdb_get_configured_providers(P) ==
    LET ok(n) == vdb_is_configured(P, n) IN SelectSeq(VdbNames, ok)

\* get_configured_providers of llm_factory
llm_get_configured_providers(P) ==
    LET ok(n) == llm_is_configured(P, n) IN SelectSeq(LlmNames, ok)

\* ------------------------------------------- vector-DB initialize

\* What one initialize call did: its outcome, the names the service (or
\* disk) holds afterwards, and whether it issued a create.
\* `fault` is NoFault, or the exception the client library raised (package not
\* installed, service unreachable) before anything was created.
InitOutcome(ret, names, created) ==
    [ret |-> ret, names |-> names, created |-> created]

PineconeInitializeAlwaysCreate(d, indexes, index_name, fault) ==
    IF ~PineconeIsConfigured(d)
    THEN InitOutcome(Raise("ValueError", <<"Pinecone API key not configured">>),
                     indexes, FALSE)
    ELSE IF fault.kind = "raise"
    THEN InitOutcome(fault, indexes, FALSE)
    ELSE InitOutcome(Return(index_name), indexes \cup {index_name}, TRUE)

\* PineconeProvider.initialize(index_name)
PineconeInitialize(d, indexes, index_name, fault) ==
    IF ~PineconeIsConfigured(d)
    THEN InitOutcome(Raise("ValueError", <<"Pinecone API key not configured">>),
                     indexes, FALSE)
    ELSE IF fault.kind = "raise"
    THEN InitOutcome(fault, indexes, FALSE)
    ELSE IF index_name \notin indexes
    THEN InitOutcome(Return(index_name), indexes \cup {index_name}, TRUE)
    ELSE InitOutcome(Return(index_name), indexes, FALSE)

\* os.path.join(a, b); a path is the sequence of its components
PathJoin(a, b) == a \o b

\* FaissProvider.initialize(index_path, index_name): os.makedirs(exist_ok)
FaissInitialize(d, dirs, index_path, index_name, fault) ==
    IF fault.kind = "raise"
    THEN InitOutcome(fault, dirs, FALSE)
    ELSE InitOutcome(Return(PathJoin(index_path, index_name)),
                     dirs \cup {index_path}, index_path \notin dirs)

\* QdrantProvider.initialize(collection_name, url)
QdrantInitialize(d, collections, collection_name, fault) ==
    IF fault.kind = "raise"
    THEN InitOutcome(fault, collections, FALSE)
    ELSE IF collection_name \notin collections
    THEN InitOutcome(Return(collection_name),
                     collections \cup {collection_name}, TRUE)
    ELSE InitOutcome(Return(collection_name), collections, FALSE)

\* exceptions a client library raises
ImportError(pkg) == Raise("ImportError", <<pkg, " package not installed">>)
ServiceError == Raise("ConnectionError", <<"service unreachable">>)

\* ------------------------------------------------- the HTTP boundary
\* (final-main/app.py, core/exceptions.py)

\* CodeDocumentationError and its subclasses
CodeDocumentationErrors ==
    {"CodeDocumentationError", "RepositoryError", "ProcessingError",
     "VectorDatabaseError", "LLMError", "SecurityError"}

\* the error_code each exception class passes to its base
error_code(type) ==
    CASE type = "RepositoryError" -> "REPOSITORY_ERROR"
      [] type = "ProcessingError" -> "PROCESSING_ERROR"
      [] type = "VectorDatabaseError" -> "VECTOR_DB_ERROR"
      [] type = "LLMError" -> "LLM_ERROR"
      [] type = "SecurityError" -> "SECURITY_ERROR"
      [] OTHER -> "DOCUMENTATION_ERROR"

\* create_error_response: the body's message, code and status_code
create_error_response(status_code, message, code) ==
    [status_code |-> status_code, message |-> message, code |-> code]

NoResponse == create_error_response(0, <<>>, "")

\* what the endpoint function returns or raises
HTTPException(status_code, detail) ==
    [type |-> "HTTPException", status_code |-> status_code, msg |-> detail]
Completed ==
    [type |-> "", status_code |-> 200,
     msg |-> <<"Documentation generated successfully">>]

\* the try / except of the generate_documentation endpoint around the
\* service call; result is what the service returned or raised
endpoint_generate_documentation(result) ==
    IF result.kind = "return"
    THEN Completed
    ELSE IF result.type \in CodeDocumentationErrors
    THEN HTTPException(400, <<"Documentation generation failed: ">> \o result.msg)
    ELSE HTTPException(500, <<"Internal server error occurred">>)

\* the handlers handle_exceptions registers; the one of the exception's own
\* class answers
exception_handler(exc) ==
    CASE exc.type \in {"CodeDocumentationError", "RepositoryError"} ->
            create_error_response(400, exc.msg, error_code(exc.type))
      [] exc.type = "ProcessingError" ->
            create_error_response(422, exc.msg, error_code(exc.type))
      [] exc.type \in {"VectorDatabaseError", "LLMError"} ->
            create_error_response(503, exc.msg, error_code(exc.type))
      [] exc.type = "SecurityError" ->
            create_error_response(403, exc.msg, error_code(exc.type))
      [] exc.type = "HTTPException" ->
            create_error_response(exc.status_code, exc.msg, "HTTP_ERROR")
      [] OTHER ->
            create_error_response(500, <<"An unexpected error occurred">>,
                                  "INTERNAL_ERROR")

\* what the client of POST /generate-documentation receives
ClientResponse(result) ==
    LET out == endpoint_generate_documentation(result)
    IN  IF out.type = ""
        THEN create_error_response(out.status_code, out.msg, "")
        ELSE exception_handler(out)

\* ---------------------------------------------- documentation storage
\* (utils/doc_storage.py) A file name and a text are sequences of
\* characters. "D" stands for the eight digits of %Y%m%d; ".md", ".json",
\* "latest" and "metadata" stand for those runs of characters; "LF" and
\* "CR" are the line feed and the carriage return.

StartsWith(s, p) == Len(p) <= Len(s) /\ SubSeq(s, 1, Len(p)) = p
EndsWith(s, p) ==
    Len(p) <= Len(s) /\ SubSeq(s, Len(s) - Len(p) + 1, Len(s)) = p

\* str.split(sep)
RECURSIVE Split(_, _)
Split(s, sep) ==
    IF \A i \in DOMAIN s : s[i] # sep
    THEN <<s>>
    ELSE LET i == CHOOSE k \in DOMAIN s :
                      s[k] = sep /\ \A j \in 1..(k - 1) : s[j] # sep
         IN  <<SubSeq(s, 1, i - 1)>> \o Split(SubSeq(s, i + 1, Len(s)), sep)

\* sep.join(parts)
RECURSIVE Join(_, _)
Join(parts, sep) ==
    IF Len(parts) = 0 THEN <<>>
    ELSE IF Len(parts) = 1 THEN parts[1]
    ELSE parts[1] \o <<sep>> \o Join(Tail(parts), sep)

\* open(path, 'w', encoding='utf-8').write(text): text mode turns every
\* line feed into os.linesep
RECURSIVE TextWrite(_, _)
TextWrite(text, linesep) ==
    IF Len(text) = 0 THEN <<>>
    ELSE (IF Head(text) = "LF" THEN linesep ELSE <<Head(text)>>)
         \o TextWrite(Tail(text), linesep)

\* open(path, 'r', encoding='utf-8').read(): universal newlines turn
\* CR LF and a lone CR into a line feed
RECURSIVE TextRead(_)
TextRead(data) ==
    IF Len(data) = 0 THEN <<>>
    ELSE IF Head(data) = "CR"
    THEN <<"LF">> \o TextRead(IF Len(data) >= 2 /\ data[2] = "LF"
                              THEN SubSeq(data, 3, Len(data))
                              ELSE Tail(data))
    ELSE <<Head(data)>> \o TextRead(Tail(data))

\* str.strip()
Whitespace == {" ", "LF", "CR", "TAB"}
RECURSIVE LStrip(_)
LStrip(s) ==
    IF Len(s) > 0 /\ Head(s) \in Whitespace THEN LStrip(Tail(s)) ELSE s
RECURSIVE RStrip(_)
RStrip(s) ==
    IF Len(s) > 0 /\ s[Len(s)] \in Whitespace
    THEN RStrip(SubSeq(s, 1, Len(s) - 1)) ELSE s
Strip(s) == RStrip(LStrip(s))

\* Optional[str]
Some(v) == [some |-> TRUE, value |-> v]
Nothing == [some |-> FALSE, value |-> <<>>]

\* a directory: file name -> file
EmptyDir == [n \in {} |-> <<>>]
Put(dir, name, file) ==
    [n \in DOMAIN dir \cup {name} |-> IF n = name THEN file ELSE dir[n]]
Unlink(dir, names) == [n \in DOMAIN dir \ names |-> dir[n]]

\* datetime.now().strftime("%Y%m%d_%H%M%S"); now counts the seconds
Timestamp(now) == <<"D", "_", ToString(now)>>

DocFilename(repo_name, timestamp) ==
    repo_name \o <<"_">> \o timestamp \o <<".md">>
MetadataFilename(repo_name, timestamp) ==
    repo_name \o <<"_">> \o timestamp \o <<"_", "metadata", ".json">>
LatestLink(repo_name) == repo_name \o <<"_", "latest", ".md">>

\* Path.stem of a name with one suffix
Stem(name) == SubSeq(name, 1, Len(name) - 1)

\* where a save can fail, and with what
NoSaveFault == [at |-> "none", exc |-> NoCall]
SaveFault(at, exc) == [at |-> at, exc |-> exc]

\* _update_latest_link: the marker file holds the artifact's file name; an
\* exception is logged and dropped. open(latest_link, 'w') may raise, which
\* leaves the directory as it was ("latest"), or it has created / truncated
\* the marker and the write raises when the file is flushed
\* ("latest_write"), which leaves an empty marker
update_latest_link(repos, repo_name, doc_filename, mtime, linesep, fault) ==
    IF fault.at = "latest"
    THEN repos
    ELSE IF fault.at = "latest_write"
    THEN Put(repos, LatestLink(repo_name), [content |-> <<>>, mtime |-> mtime])
    ELSE Put(repos, LatestLink(repo_name),
             [content |-> TextWrite(doc_filename, linesep), mtime |-> mtime])

\* the sidecar save_documentation writes: the caller's metadata plus
\* generated_at and documentation_file
Sidecar(metadata, generated_at, doc_filename) ==
    [json |-> "dict",
     task_id |-> metadata.task_id,
     chunks_processed |-> metadata.chunks_processed,
     generated_at |-> [kind |-> "str", t |-> generated_at],
     documentation_file |-> doc_filename]

\* save_documentation: fs is the storage (repos, meta, instant, linesep),
\* now the second datetime.now() reads. Instants are points of the clock
\* finer than a second: generated_at, then the modification times of the
\* artifact and of the marker.
save_documentation(fs, repo_name, documentation, metadata, now, fault) ==
    LET timestamp == Timestamp(now)
        doc_filename == DocFilename(repo_name, timestamp)
        metadata_filename == MetadataFilename(repo_name, timestamp)
        doc == [content |-> TextWrite(documentation, fs.linesep),
                mtime |-> fs.instant + 2]
        withDoc == [fs EXCEPT !.repos = Put(@, doc_filename, doc),
                              !.instant = @ + 3]
        withMeta == [withDoc EXCEPT !.meta =
                        Put(@, metadata_filename,
                            Sidecar(metadata, fs.instant + 1, doc_filename))]
        withLink == [withMeta EXCEPT !.repos =
                        update_latest_link(@, repo_name, doc_filename,
                                           fs.instant + 3, fs.linesep, fault)]
    IN  IF fault.at = "doc"
        THEN [ret |-> fault.exc, fs |-> fs]
        ELSE IF fault.at = "metadata"
        THEN [ret |-> fault.exc, fs |-> withDoc]
        ELSE [ret |-> Return([doc_filename |-> doc_filename,
                              metadata_filename |-> metadata_filename]),
              fs |-> withLink]

\* a save that writes the sidecar before the artifact
save_documentation_sidecar_first(fs, repo_name, documentation, metadata, now, n) ==
    LET doc_filename == DocFilename(repo_name, Timestamp(now))
        metadata_filename == MetadataFilename(repo_name, Timestamp(now))
        doc == [content |-> TextWrite(documentation, fs.linesep),
                mtime |-> fs.instant + 2]
        w1 == [fs EXCEPT !.meta =
                  Put(@, metadata_filename,
                      Sidecar(metadata, fs.instant + 1, doc_filename))]
        w2 == [w1 EXCEPT !.repos = Put(@, doc_filename, doc)]
        w3 == [w2 EXCEPT !.repos =
                  update_latest_link(@, repo_name, doc_filename,
                                     fs.instant + 3, fs.linesep, NoSaveFault)]
    IN  IF n = 0 THEN fs ELSE IF n = 1 THEN w1 ELSE IF n = 2 THEN w2 ELSE w3

\* save_documentation, write by write: the files after the first n of its
\* three writes (lines 71-72 the artifact, 75-76 the sidecar, 79 the
\* marker); fs is the storage when the call began
save_documentation_upto(fs, repo_name, documentation, metadata, now, n) ==
    LET doc_filename == DocFilename(repo_name, Timestamp(now))
        metadata_filename == MetadataFilename(repo_name, Timestamp(now))
        doc == [content |-> TextWrite(documentation, fs.linesep),
                mtime |-> fs.instant + 2]
        w1 == [fs EXCEPT !.repos = Put(@, doc_filename, doc)]
        w2 == [w1 EXCEPT !.meta =
                  Put(@, metadata_filename,
                      Sidecar(metadata, fs.instant + 1, doc_filename))]
        w3 == [w2 EXCEPT !.repos =
                  update_latest_link(@, repo_name, doc_filename,
                                     fs.instant + 3, fs.linesep, NoSaveFault)]
    IN  IF n = 0 THEN fs ELSE IF n = 1 THEN w1 ELSE IF n = 2 THEN w2 ELSE w3

\* Path.glob(f"{repo_name}_*.md")
GlobRepo(name, repo_name) ==
    /\ StartsWith(name, repo_name \o <<"_">>)
    /\ EndsWith(name, <<".md">>)
    /\ Len(name) >= Len(repo_name) + 2

\* the file of a set with the greatest modification time
Newest(repos, names) ==
    CHOOSE f \in names : \A g \in names : repos[g].mtime <= repos[f].mtime

\* get_documentation_by_repo; when the marker is empty, repos_dir / "" is
\* the directory itself: it exists, open raises IsADirectoryError and the
\* except clause returns None
get_documentation_by_repo(fs, repo_name) ==
    LET latest_link == LatestLink(repo_name)
        target_filename == Strip(TextRead(fs.repos[latest_link].content))
        matching_files == {n \in DOMAIN fs.repos : GlobRepo(n, repo_name)}
        latest_file == Newest(fs.repos, matching_files)
    IN  IF latest_link \in DOMAIN fs.repos /\ target_filename = <<>>
        THEN Nothing
        ELSE IF latest_link \in DOMAIN fs.repos
                /\ target_filename \in DOMAIN fs.repos
        THEN Some(TextRead(fs.repos[target_filename].content))
        ELSE IF matching_files = {}
        THEN Nothing
        ELSE Some(TextRead(fs.repos[latest_file].content))

\* a grouping by the first part of the name only
RepoOfStemFirstPart(stem) == Split(stem, "_")[1]

\* the repository name cleanup_old_files reads off an artifact's name:
\* "_".join(stem.split("_")[:-2])
RepoOfStem(stem) ==
    LET name_parts == Split(stem, "_")
    IN  Join(SubSeq(name_parts, 1, Len(name_parts) - 2), "_")

\* the artifacts cleanup_old_files groups: every *.md that is not a
\* marker and whose stem has at least three parts
Grouped(repos) ==
    {n \in DOMAIN repos :
        /\ EndsWith(n, <<".md">>)
        /\ ~EndsWith(n, <<"_", "latest", ".md">>)
        /\ Len(Split(Stem(n), "_")) >= 3}

GroupOf(repos, repo_name) ==
    {n \in Grouped(repos) : RepoOfStem(Stem(n)) = repo_name}

\* where files[keep_versions:] starts, counted from 0
SliceStart(n, keep_versions) ==
    IF keep_versions >= 0
    THEN (IF keep_versions < n THEN keep_versions ELSE n)
    ELSE (IF n + keep_versions > 0 THEN n + keep_versions ELSE 0)

\* the position of a file once its group is sorted newest first
PositionNewestFirst(repos, group, f) ==
    Cardinality({g \in group : repos[g].mtime > repos[f].mtime})

\* a slice that keeps the oldest files instead of the newest
OldFilesKeepingOldest(repos, keep_versions) ==
    {f \in Grouped(repos) :
        LET files == GroupOf(repos, RepoOfStem(Stem(f)))
        IN  /\ Cardinality(files) > keep_versions
            /\ Cardinality({g \in files : repos[g].mtime < repos[f].mtime})
                  >= SliceStart(Cardinality(files), keep_versions)}

\* the artifacts cleanup_old_files unlinks: in every group longer than
\* keep_versions, files[keep_versions:] of the group sorted newest first
OldFiles(repos, keep_versions) ==
    {f \in Grouped(repos) :
        LET files == GroupOf(repos, RepoOfStem(Stem(f)))
        IN  /\ Cardinality(files) > keep_versions
            /\ PositionNewestFirst(repos, files, f)
                  >= SliceStart(Cardinality(files), keep_versions)}

\* a sidecar name built from the whole file name
SidecarOfName(doc_filename) == doc_filename \o <<"_", "metadata", ".json">>

\* the sidecar of an artifact: f"{old_file.stem}_metadata.json"
SidecarOf(doc_filename) == Stem(doc_filename) \o <<"_", "metadata", ".json">>

\* a cleanup that counts the artifacts only
cleanup_old_files_counting_artifacts(fs, keep_versions) ==
    LET old == OldFiles(fs.repos, keep_versions)
        sidecars == {SidecarOf(f) : f \in old} \cap DOMAIN fs.meta
    IN  [ret |-> Return(Cardinality(old)),
         fs |-> [fs EXCEPT !.repos = Unlink(@, old),
                           !.meta = Unlink(@, sidecars)]]

\* cleanup_old_files
cleanup_old_files(fs, keep_versions) ==
    LET old == OldFiles(fs.repos, keep_versions)
        sidecars == {SidecarOf(f) : f \in old} \cap DOMAIN fs.meta
    IN  [ret |-> Return(Cardinality(old) + Cardinality(sidecars)),
         fs |-> [fs EXCEPT !.repos = Unlink(@, old),
                           !.meta = Unlink(@, sidecars)]]

\* what json.load and the metadata_file_path assignment make of a sidecar
Readable(sidecar) == sidecar.json = "dict"

\* x.get("generated_at", "")
SortKey(entry) ==
    IF entry.generated_at.kind = "missing"
    THEN [kind |-> "str", t |-> -1]
    ELSE entry.generated_at

\* the entries get_documentation_list collects
ListEntries(meta) ==
    {[metadata_file_path |-> n, metadata |-> meta[n]] :
        n \in {m \in DOMAIN meta :
                  EndsWith(m, <<"_", "metadata", ".json">>) /\ Readable(meta[m])}}

\* the sort compares a str with an int: TypeError
SortRaises(entries) ==
    \E a, b \in entries :
        SortKey(a.metadata).kind # SortKey(b.metadata).kind

\* docs_list.sort(key=..., reverse=True) has produced docs_list
SortedDescending(docs_list) ==
    \A i, j \in DOMAIN docs_list :
        i < j => SortKey(docs_list[i].metadata).t >= SortKey(docs_list[j].metadata).t

\* the sequences that hold each element of a set once
Orderings(S) ==
    {q \in [1..Cardinality(S) -> S] : \A i, j \in DOMAIN q : q[i] = q[j] => i = j}

\* get_documentation_list: the lists it may return; the order of equal
\* keys is the order glob yielded the files in
get_documentation_list(fs) ==
    LET entries == ListEntries(fs.meta)
    IN  IF SortRaises(entries)
        THEN {<<>>}
        ELSE {q \in Orderings(entries) : SortedDescending(q)}

\* ------------------------------------------------------------- the state

VARIABLES
    env,            \* the process environment
    vdbProviders,   \* vector_db_factory._PROVIDERS
    llmProviders,   \* llm_factory._PROVIDERS
    call,           \* the last registry call: [op, arg, ret]
    pineconeIndexes,    \* names of the indexes the Pinecone service holds
    qdrantCollections,  \* names of the collections the Qdrant service holds
    faissDirs,          \* FAISS index directories on the local disk
    initLog,            \* the initialize calls made so far, in order
    vectors,            \* the documents the vector stores hold, per target
    settings,       \* DocumentationService.settings, shared by all runs
    run,            \* per run of generate_documentation: its locals and position
    hist,           \* per run: what it did so far (history, not program state)
    dirs,           \* the directories that exist under settings.repo_directory
    reposDir,       \* docs/repositories: file name -> [content, mtime]
    metadataDir,    \* docs/metadata: file name -> sidecar
    instant,        \* the clock, finer than a second
    clock,          \* the clock in seconds, as strftime last showed it
    linesep,        \* os.linesep
    storeCall       \* the last storage call: [op, args, ret, before]

regVars == <<env, vdbProviders, llmProviders, call>>

vsVars == <<pineconeIndexes, qdrantCollections, faissDirs, initLog, vectors>>

pipeVars == <<settings, run, hist, dirs>>

storeVars == <<reposDir, metadataDir, instant, clock, linesep, storeCall>>

vars == <<env, vdbProviders, llmProviders, call,
          pineconeIndexes, qdrantCollections, faissDirs, initLog, vectors,
          settings, run, hist, dirs,
          reposDir, metadataDir, instant, clock, linesep, storeCall>>

\* names a caller may ask for: the registered ones and two that are not
AskedNames == Range(VdbNames) \cup Range(LlmNames) \cup {"chroma", ""}

NoRegistryCall == [op |-> "none", arg |-> None, ret |-> NoCall]

InitRegistry(envs) ==
    /\ env \in envs
    /\ vdbProviders = VDB_PROVIDERS(env)
    /\ llmProviders = LLM_PROVIDERS(env)
    /\ call = NoRegistryCall

\* no index, collection or index directory exists before the first run
InitVectorStores ==
    /\ pineconeIndexes = {}
    /\ qdrantCollections = {}
    /\ faissDirs = {}
    /\ initLog = <<>>
    /\ vectors = {}

\* what a storage call leaves in storeCall
StoreCall(op, repo_name, documentation, keep_versions, ret, before) ==
    [op |-> op, repo_name |-> repo_name, documentation |-> documentation,
     keep_versions |-> keep_versions, ret |-> ret, before |-> before]

NoStoreCall == StoreCall("none", <<>>, <<>>, 0, NoCall, EmptyDir)

\* os.linesep on POSIX
PosixLinesep == <<"LF">>

\* DocumentationStorage.__init__ on an empty docs directory
InitStorage ==
    /\ reposDir = EmptyDir
    /\ metadataDir = EmptyDir
    /\ instant = 0
    /\ clock = 0
    /\ linesep = PosixLinesep
    /\ storeCall = NoStoreCall

\* ------------------------------------------- the documentation service

\* how many runs of generate_documentation one behaviour holds
NumRuns == 2

Runs == 1..NumRuns

\* Settings' defaults (core/config.py)
DefaultSettings == [vector_db_provider |-> "pinecone", llm_provider |-> "gemini"]
max_repo_size_mb == 500
max_file_size_mb == 10
faiss_index_name == <<"code-docs">>
qdrant_collection_name == <<"code-docs">>

\* a path that is None
NoPath == <<>>

\* a run that has not been called yet
IdleRun ==
    [pc |-> "idle",
     repo_name |-> <<>>,
     task_id |-> <<>>,
     temp_dir |-> NoPath,
     vector_db_provider |-> None,   \* the argument
     llm_provider |-> None,         \* the argument
     original |-> DefaultSettings,  \* original_vector_db_provider / _llm_provider
     repo_path |-> NoPath,
     chunks |-> <<>>,
     provider |-> None,             \* the vector-DB provider a stage resolved
     db_id |-> <<>>,                \* index_name: what stage 4 returned
     vectorstore |-> <<>>,
     pending |-> NoCall,            \* what the executor thread produced
     result |-> NoCall,             \* what the call returns or raises
     response |-> NoResponse]       \* what the client of the endpoint receives

\* no clone has been validated yet
NoSnapshot ==
    [size_mb |-> 0 - 1, processable_files |-> 0 - 1, largest_file_mb |-> 0 - 1,
     scan_error |-> NoCall]

NoHist ==
    [atCall |-> DefaultSettings,  \* settings when the run was called
     events |-> <<>>,             \* <<"start" | "ok" | "fail", stage>>, in order
     used |-> <<>>,               \* the settings each stage read: [stage, vdb, llm]
     cleanups |-> 0,              \* calls of cleanup_directory
     dropped |-> <<>>,            \* the exceptions stage 3 logged and dropped
     chunked |-> 0 - 1,           \* how many chunks stage 3 got; -1 before
     loads |-> <<>>,              \* what load_and_split did, per extension
     attempted |-> <<>>,          \* the extensions load_and_split was called for
     snap |-> NoSnapshot,         \* the clone as the validators of stage 2 saw it
     llm_calls |-> 0,             \* how often stage 7 invoked the chain
     cause |-> NoCall]            \* the exception a stage's except clause caught

InitService ==
    /\ settings = DefaultSettings
    /\ run = [r \in Runs |-> IdleRun]
    /\ hist = [r \in Runs |-> NoHist]
    /\ dirs = {}

\* GeminiProvider / OpenAIProvider / AzureOpenAIProvider .get_llm; fault is
\* what the import and the constructor of the client do
get_llm(p, fault) ==
    IF ~llm_is_configured(llmProviders, p.name)
    THEN Raise("ValueError", <<p.name, " not configured">>)
    ELSE IF fault.kind = "raise"
    THEN fault
    ELSE Return(<<"llm", p.name>>)

\* GeminiProvider / OpenAIProvider / AzureOpenAIProvider .get_embeddings
get_embeddings(p, fault) ==
    IF ~llm_is_configured(llmProviders, p.name)
    THEN Raise("ValueError", <<p.name, " not configured">>)
    ELSE IF p.name = "azure_openai" /\ ~Truthy(p.desc.embedding_deployment)
    THEN Raise("ValueError",
               <<"Azure OpenAI embedding deployment not configured">>)
    ELSE IF fault.kind = "raise"
    THEN fault
    ELSE Return(<<"embeddings", p.name>>)

\* a resolve whose descriptors read the environment at every call
ResolveVdbRereadingEnv(name) ==
    /\ call' = [op |-> "get_vector_database_provider", arg |-> name,
                ret |-> get_vector_database_provider(VDB_PROVIDERS(env), name)]
    /\ UNCHANGED <<env, vdbProviders, llmProviders, vsVars, pipeVars, storeVars>>

ResolveVdb(name) ==
    /\ call' = [op |-> "get_vector_database_provider", arg |-> name,
                ret |-> get_vector_database_provider(vdbProviders, name)]
    /\ UNCHANGED <<env, vdbProviders, llmProviders, vsVars, pipeVars, storeVars>>

ResolveLlm(name) ==
    /\ call' = [op |-> "get_llm_provider", arg |-> name,
                ret |-> get_llm_provider(llmProviders, name)]
    /\ UNCHANGED <<env, vdbProviders, llmProviders, vsVars, pipeVars, storeVars>>

ListAvailableVdb ==
    /\ call' = [op |-> "list_available_providers", arg |-> None,
                ret |-> Return(list_available_providers(vdbProviders))]
    /\ UNCHANGED <<env, vdbProviders, llmProviders, vsVars, pipeVars, storeVars>>

ListAvailableLlm ==
    /\ call' = [op |-> "list_available_llm_providers", arg |-> None,
                ret |-> Return(list_available_llm_providers(llmProviders))]
    /\ UNCHANGED <<env, vdbProviders, llmProviders, vsVars, pipeVars, storeVars>>

ListConfiguredVdb ==
    /\ call' = [op |-> "vdb_get_configured_providers", arg |-> None,
                ret |-> Return(vdb_get_configured_providers(vdbProviders))]
    /\ UNCHANGED <<env, vdbProviders, llmProviders, vsVars, pipeVars, storeVars>>

ListConfiguredLlm ==
    /\ call' = [op |-> "llm_get_configured_providers", arg |-> None,
                ret |-> Return(llm_get_configured_providers(llmProviders))]
    /\ UNCHANGED <<env, vdbProviders, llmProviders, vsVars, pipeVars, storeVars>>

\* get_llm_provider(name).get_llm(): the provider that resolve returned
\* is asked for its chat model; the client library is installed
GetLlm(name) ==
    LET p == get_llm_provider(llmProviders, name)
    IN  /\ p.kind = "return"
        /\ call' = [op |-> "get_llm", arg |-> name,
                    ret |-> get_llm(p.value, NoFault)]
        /\ UNCHANGED <<env, vdbProviders, llmProviders, vsVars, pipeVars,
                       storeVars>>

\* get_llm_provider(name).get_embeddings()
GetEmbeddings(name) ==
    LET p == get_llm_provider(llmProviders, name)
    IN  /\ p.kind = "return"
        /\ call' = [op |-> "get_embeddings", arg |-> name,
                    ret |-> get_embeddings(p.value, NoFault)]
        /\ UNCHANGED <<env, vdbProviders, llmProviders, vsVars, pipeVars,
                       storeVars>>

NextRegistry ==
    \/ \E name \in AskedNames : ResolveVdb(name)
    \/ \E name \in AskedNames : ResolveLlm(name)
    \/ \E name \in AskedNames : GetLlm(name)
    \/ \E name \in AskedNames : GetEmbeddings(name)
    \/ ListAvailableVdb
    \/ ListAvailableLlm
    \/ ListConfiguredVdb
    \/ ListConfiguredLlm

InitAnyEnv ==
    InitRegistry(AllEnvs) /\ InitVectorStores /\ InitService /\ InitStorage

SpecRegistry == InitAnyEnv /\ [][NextRegistry]_vars

\* ------------------------------------------------------ registry claims

ClosedVdbSet == {"pinecone", "faiss", "qdrant"}
ClosedLlmSet == {"gemini", "openai", "azure_openai"}

IsResolveCall == call.op \in {"get_vector_database_provider", "get_llm_provider"}

\* the closed set, the registry and is_configured of the registry a resolve
\* call went to
CalledClosedSet ==
    IF call.op = "get_vector_database_provider" THEN ClosedVdbSet ELSE ClosedLlmSet

CalledRegistry ==
    IF call.op = "get_vector_database_provider" THEN vdbProviders ELSE llmProviders

CalledIsConfigured ==
    /\ call.arg \in CalledClosedSet
    /\ IF call.op = "get_vector_database_provider"
       THEN vdb_is_configured(vdbProviders, call.arg)
       ELSE llm_is_configured(llmProviders, call.arg)

C9_ListAvailableAndConfigured ==
    LET availV == list_available_providers(vdbProviders)
        availL == list_available_llm_providers(llmProviders)
        confV == vdb_get_configured_providers(vdbProviders)
        confL == llm_get_configured_providers(llmProviders)
    IN  /\ Range(availV) = ClosedVdbSet /\ Len(availV) = 3
        /\ Range(availL) = ClosedLlmSet /\ Len(availL) = 3
        /\ Range(confV) = {n \in ClosedVdbSet : vdb_is_configured(vdbProviders, n)}
        /\ Range(confL) = {n \in ClosedLlmSet : llm_is_configured(llmProviders, n)}
        /\ Len(confV) = Cardinality(Range(confV))
        /\ Len(confL) = Cardinality(Range(confL))
        /\ Range(confV) \subseteq Range(availV)
        /\ Range(confL) \subseteq Range(availL)
        /\ \A n \in AskedNames :
              /\ n \in Range(confV) <=>
                    get_vector_database_provider(vdbProviders, n).kind = "return"
              /\ n \in Range(confL) <=>
                    get_llm_provider(llmProviders, n).kind = "return"
        /\ call.op = "list_available_providers" => call.ret.value = availV
        /\ call.op = "list_available_llm_providers" => call.ret.value = availL
        /\ call.op = "vdb_get_configured_providers" => call.ret.value = confV
        /\ call.op = "llm_get_configured_providers" => call.ret.value = confL

\* C9 witness: no LLM provider is configured, only some vector-DB providers
\* are, and list_available was called and still returned three names
C9_Witness_NothingConfigured ==
    /\ llm_get_configured_providers(llmProviders) = <<>>
    /\ Len(vdb_get_configured_providers(vdbProviders)) = 2
    /\ call.op = "list_available_llm_providers"
    /\ Len(call.ret.value) = 3

\* ------------------------------------------ initialize, called directly

\* how many initialize calls one behaviour makes
MaxInitCalls == 3

\* logical names a caller initializes
IndexNames == {<<"code-docs">>, <<"code-docs-", "a">>}

\* Settings.faiss_index_path
FaissIndexPath == <<"./faiss_indexes">>

InitFaults == {NoFault, ImportError("client"), ServiceError}

\* credentials all present, all absent, or all set to the empty string
UniformEnvs == {[v \in EnvVars |-> x] : x \in EnvValues}

LogEntry(p, name, fault, out) ==
    [provider |-> p, name |-> name, fault |-> fault,
     ret |-> out.ret, created |-> out.created]

CallPineconeInitialize(name, fault) ==
    /\ Len(initLog) < MaxInitCalls
    /\ LET out == PineconeInitialize(vdbProviders["pinecone"],
                                     pineconeIndexes, name, fault)
       IN  /\ pineconeIndexes' = out.names
           /\ initLog' = Append(initLog, LogEntry("pinecone", name, fault, out))
    /\ UNCHANGED <<regVars, qdrantCollections, faissDirs, vectors, pipeVars,
                   storeVars>>

CallFaissInitialize(name, fault) ==
    /\ Len(initLog) < MaxInitCalls
    /\ LET out == FaissInitialize(vdbProviders["faiss"], faissDirs,
                                  FaissIndexPath, name, fault)
       IN  /\ faissDirs' = out.names
           /\ initLog' = Append(initLog, LogEntry("faiss", name, fault, out))
    /\ UNCHANGED <<regVars, pineconeIndexes, qdrantCollections, vectors,
                   pipeVars, storeVars>>

CallQdrantInitialize(name, fault) ==
    /\ Len(initLog) < MaxInitCalls
    /\ LET out == QdrantInitialize(vdbProviders["qdrant"],
                                   qdrantCollections, name, fault)
       IN  /\ qdrantCollections' = out.names
           /\ initLog' = Append(initLog, LogEntry("qdrant", name, fault, out))
    /\ UNCHANGED <<regVars, pineconeIndexes, faissDirs, vectors, pipeVars,
                   storeVars>>

NextInitialize ==
    \/ \E name \in IndexNames, fault \in InitFaults :
          CallPineconeInitialize(name, fault)
    \/ \E name \in IndexNames, fault \in InitFaults :
          CallFaissInitialize(name, fault)
    \/ \E name \in IndexNames, fault \in InitFaults :
          CallQdrantInitialize(name, fault)

InitUniformEnv ==
    InitRegistry(UniformEnvs) /\ InitVectorStores /\ InitService /\ InitStorage

SpecInitialize == InitUniformEnv /\ [][NextInitialize]_vars

\* C10: for each vector-DB provider, when initialize has succeeded for a
\* logical name, a later initialize of the same provider with the same name
\* (the client library answering) succeeds too, returns the same identifier
\* and issues no create: the index / collection / directory of a name is
\* created at most once.
C10_InitializeIdempotent ==
    /\ \A i, j \in DOMAIN initLog :
          (/\ i < j
           /\ initLog[i].provider = initLog[j].provider
           /\ initLog[i].name = initLog[j].name
           /\ initLog[i].ret.kind = "return"
           /\ initLog[j].fault = NoFault)
          => /\ initLog[j].ret.kind = "return"
             /\ initLog[j].ret.value = initLog[i].ret.value
             /\ ~initLog[j].created
    /\ \A p \in ClosedVdbSet, n \in IndexNames :
          Cardinality({i \in DOMAIN initLog :
                          /\ initLog[i].provider = p
                          /\ initLog[i].name = n
                          /\ initLog[i].created}) <= 1

\* C10 witness: the same Pinecone index was initialized twice in a row, both
\* calls returned, and the first one created the index
C10_Witness_SecondCallReuses ==
    /\ Len(initLog) >= 2
    /\ initLog[1].provider = "pinecone"
    /\ initLog[2].provider = "pinecone"
    /\ initLog[1].name = initLog[2].name
    /\ initLog[1].ret.kind = "return"
    /\ initLog[1].created
    /\ initLog[2].ret.kind = "return"

\* ------------------------------------- generate_documentation, by stage

\* What one step of a run works on: the shared settings, the run's own
\* locals (me) and history (h), the directories, and the vector services.
Bundle(r) ==
    [settings |-> settings, me |-> run[r], h |-> hist[r], dirs |-> dirs,
     pinecone |-> pineconeIndexes, qdrant |-> qdrantCollections,
     faiss |-> faissDirs, vectors |-> vectors,
     fs |-> [repos |-> reposDir, meta |-> metadataDir, instant |-> instant,
             linesep |-> linesep],
     clock |-> clock]

Commit(r, S) ==
    /\ settings' = S.settings
    /\ run' = [run EXCEPT ![r] = S.me]
    /\ hist' = [hist EXCEPT ![r] = S.h]
    /\ dirs' = S.dirs
    /\ pineconeIndexes' = S.pinecone
    /\ qdrantCollections' = S.qdrant
    /\ faissDirs' = S.faiss
    /\ vectors' = S.vectors
    /\ reposDir' = S.fs.repos
    /\ metadataDir' = S.fs.meta
    /\ instant' = S.fs.instant
    /\ clock' = S.clock

\* history: a stage started, completed, or failed
Ev(S, kind, stage) ==
    [S EXCEPT !.h.events = Append(@, [kind |-> kind, stage |-> stage])]

\* history: a stage read the shared provider settings
Used(S, stage) ==
    [S EXCEPT !.h.used =
        Append(@, [stage |-> stage,
                   vdb |-> S.settings.vector_db_provider,
                   llm |-> S.settings.llm_provider])]

\* a wrapper that drops the message of the exception it caught
WrapWithoutCause(type, prefix, e) == Raise(type, <<prefix>>)

\* raise XError(f"{prefix}{str(e)}")
Wrap(type, prefix, e) == Raise(type, <<prefix>> \o e.msg)

\* the override at the head of generate_documentation
OverrideSettings(st, vdb, llm) ==
    [vector_db_provider |-> IF Truthy(vdb) THEN vdb ELSE st.vector_db_provider,
     llm_provider |-> IF Truthy(llm) THEN llm ELSE st.llm_provider]

\* a restore that forgets the LLM provider
RestoreVdbOnly(st, original) ==
    [vector_db_provider |-> original.vector_db_provider,
     llm_provider |-> st.llm_provider]

\* the two assignments that open the finally block
RestoreSettings(st, original) ==
    [vector_db_provider |-> original.vector_db_provider,
     llm_provider |-> original.llm_provider]

\* except / finally of generate_documentation: the settings are restored
\* and, when repo_path is set, cleanup_directory is dispatched; res is what
\* the call returns or raises once the cleanup has been awaited.
Finally(S, res) ==
    LET restored ==
            [S EXCEPT !.settings = RestoreSettings(S.settings, S.me.original),
                      !.me.result = res]
    IN  IF S.me.repo_path # NoPath
        THEN [restored EXCEPT !.me.pc = "cleanup", !.h.cleanups = @ + 1]
        ELSE [restored EXCEPT !.me.pc = "done"]

\* a stage's except clause: the stage fails with err; cause is the
\* exception its collaborator raised
FailStage(S, stage, err, cause) ==
    Finally([Ev(S, "fail", stage) EXCEPT !.h.cause = cause], err)

\* a directory named after the task alone
TempDirOfTask(task_id, uniq) == <<"repo_">> \o task_id

\* tempfile.mkdtemp(prefix=f"repo_{task_id}_"): a fresh name, never one
\* that exists; uniq is the suffix mkdtemp picked
TempDir(task_id, uniq) == <<"repo_">> \o task_id \o <<"_", uniq>>

\* rmtree(path): path and everything below it
IsPrefix(a, b) == Len(a) <= Len(b) /\ SubSeq(b, 1, Len(a)) = a
RemoveTree(ds, path) == {d \in ds : ~IsPrefix(path, d)}

\* lines 82-103 and _clone_repository up to its await: the settings are
\* saved and overridden, the temporary directory is made and clone_repo is
\* handed to the executor
generate_documentation_begin(S, repo_name, task_id, vdb, llm, uniq, mkFault) ==
    LET S0 == [S EXCEPT !.me.repo_name = repo_name,
                        !.me.task_id = task_id,
                        !.me.vector_db_provider = vdb,
                        !.me.llm_provider = llm,
                        !.me.original = S.settings,
                        !.h.atCall = S.settings,
                        !.settings = OverrideSettings(S.settings, vdb, llm)]
        S1 == Ev(S0, "start", 1)
        temp_dir == TempDir(task_id, uniq)
    IN  IF mkFault.kind = "raise"
        THEN FailStage(S1, 1,
                 Wrap("RepositoryError", "Failed to clone repository: ", mkFault),
                 mkFault)
        ELSE [S1 EXCEPT !.dirs = @ \cup {temp_dir},
                        !.me.temp_dir = temp_dir,
                        !.me.pc = "clone"]

\* validate_repository_size: snap is what the clone left on disk
validate_repository_size(snap, max_size_mb) ==
    IF snap.scan_error.kind = "raise"
    THEN Wrap("ProcessingError", "Failed to validate repository size: ",
              snap.scan_error)
    ELSE IF snap.size_mb > max_size_mb
    THEN Raise("ProcessingError",
               <<"Repository size (", ToString(snap.size_mb),
                 " MB) exceeds maximum allowed size (",
                 ToString(max_size_mb), " MB)">>)
    ELSE Return(None)

\* validate_file_types
validate_file_types(snap, max_file_mb) ==
    IF snap.scan_error.kind = "raise"
    THEN Wrap("ProcessingError", "Failed to validate file types: ",
              snap.scan_error)
    ELSE IF snap.processable_files = 0
    THEN Raise("ProcessingError",
               <<"No processable files found with extensions: ">>)
    ELSE IF snap.largest_file_mb > max_file_mb
    THEN Raise("ProcessingError",
               <<"Files exceed maximum size (", ToString(max_file_mb), " MB): ">>)
    ELSE Return(None)

\* the two checks in the other order
validate_outcome_types_first(snap) ==
    LET types == validate_file_types(snap, max_file_size_mb)
    IN  IF types.kind = "raise"
        THEN types
        ELSE validate_repository_size(snap, max_repo_size_mb)

\* the two checks of _validate_repository, in their order
validate_outcome(snap) ==
    LET size == validate_repository_size(snap, max_repo_size_mb)
    IN  IF size.kind = "raise"
        THEN size
        ELSE validate_file_types(snap, max_file_size_mb)

\* _process_repository up to its await: chunking is handed to the executor
process_repository_begin(S) ==
    [Ev(S, "start", 3) EXCEPT !.me.pc = "chunk"]

\* _validate_repository: runs on the event loop, without suspension
validate_repository(S, snap) ==
    LET S1 == [Ev(S, "start", 2) EXCEPT !.h.snap = snap]
        v == validate_outcome(snap)
    IN  IF v.kind = "raise"
        THEN FailStage(S1, 2,
                 Wrap("ProcessingError", "Repository validation failed: ", v), v)
        ELSE process_repository_begin(Ev(S1, "ok", 2))

\* a clone step that goes on to chunking without validating
clone_repository_resume_unvalidated(S, fault, snap) ==
    process_repository_begin(
        Ev([S EXCEPT !.me.repo_path = PathJoin(S.me.temp_dir, <<"repo">>)],
           "ok", 1))

\* _clone_repository after its await, then stage 2 and the start of stage 3
clone_repository_resume(S, fault, snap) ==
    IF fault.kind = "raise"
    THEN FailStage(S, 1,
             Wrap("RepositoryError", "Failed to clone repository: ", fault),
             fault)
    ELSE LET repo_path == PathJoin(S.me.temp_dir, <<"repo">>)
             S1 == [S EXCEPT !.me.repo_path = repo_path,
                             !.dirs = @ \cup {repo_path}]
         IN  validate_repository(Ev(S1, "ok", 1), snap)

\* the requested file extensions
FileExtensions == <<".py", "java">>

\* a loop that gives up at the first extension that fails
RECURSIVE load_and_split_until_failure(_)
load_and_split_until_failure(loads) ==
    IF loads = <<>> \/ Head(loads).kind = "raise"
    THEN <<>>
    ELSE Head(loads).value \o load_and_split_until_failure(Tail(loads))

\* _load_and_split_with_extensions: loads[i] is what load_and_split did for
\* the i-th requested extension, a chunk list or an exception; an exception
\* is logged and the loop goes on
RECURSIVE load_and_split_with_extensions(_)
load_and_split_with_extensions(loads) ==
    IF loads = <<>>
    THEN <<>>
    ELSE (IF Head(loads).kind = "return" THEN Head(loads).value ELSE <<>>)
         \o load_and_split_with_extensions(Tail(loads))

\* the extensions the loop called load_and_split for, in call order: the
\* loop has no break, and its except clause continues
RECURSIVE LoadCalls(_, _)
LoadCalls(file_extensions, loads) ==
    IF file_extensions = <<>>
    THEN <<>>
    ELSE <<Head(file_extensions)>>
         \o LoadCalls(Tail(file_extensions), Tail(loads))

\* the exceptions of load_and_split that the loop caught
DroppedFaults(loads) ==
    LET raised(l) == l.kind = "raise"
    IN  SelectSeq(loads, raised)

\* task_id.replace("-", "")[:32]
PineconeTaskIdLimit == 32
ShortTaskId(task_id) ==
    LET keep(c) == c # "-"
        undashed == SelectSeq(task_id, keep)
    IN  SubSeq(undashed, 1,
               IF Len(undashed) < PineconeTaskIdLimit
               THEN Len(undashed) ELSE PineconeTaskIdLimit)

\* a stage 5 that reports an unresolvable LLM provider as an LLM error
ingest_to_vector_database_begin_llm_error(S, embFault) ==
    LET S1 == Used(Ev(S, "start", 5), 5)
        provider == get_vector_database_provider(vdbProviders,
                                                 S.settings.vector_db_provider)
        llm_provider == get_llm_provider(llmProviders, S.settings.llm_provider)
    IN  IF provider.kind = "raise"
        THEN FailStage(S1, 5,
                 Wrap("VectorDatabaseError",
                      "Failed to ingest to vector database: ", provider),
                 provider)
        ELSE IF llm_provider.kind = "raise"
        THEN FailStage(S1, 5, Wrap("LLMError", "", llm_provider), llm_provider)
        ELSE [S1 EXCEPT !.me.provider = S.settings.vector_db_provider,
                        !.me.pc = "ingest"]

\* _ingest_to_vector_database up to its await: both providers are resolved
\* from the shared settings and ingest_documents is handed to the executor
ingest_to_vector_database_begin(S, embFault) ==
    LET S1 == Used(Ev(S, "start", 5), 5)
        prefix == "Failed to ingest to vector database: "
        name == S.settings.vector_db_provider
        provider == get_vector_database_provider(vdbProviders, name)
        llm_provider == get_llm_provider(llmProviders, S.settings.llm_provider)
        embeddings == get_embeddings(llm_provider.value, embFault)
    IN  IF provider.kind = "raise"
        THEN FailStage(S1, 5, Wrap("VectorDatabaseError", prefix, provider),
                       provider)
        ELSE IF llm_provider.kind = "raise"
        THEN FailStage(S1, 5, Wrap("VectorDatabaseError", prefix, llm_provider),
                       llm_provider)
        ELSE IF embeddings.kind = "raise"
        THEN FailStage(S1, 5, Wrap("VectorDatabaseError", prefix, embeddings),
                       embeddings)
        ELSE IF name \in {"pinecone", "faiss", "qdrant"}
        THEN [S1 EXCEPT !.me.provider = name, !.me.pc = "ingest"]
        ELSE LET e == Raise("ValueError",
                         <<"Unsupported vector database provider: ", name>>)
             IN  FailStage(S1, 5, Wrap("VectorDatabaseError", prefix, e), e)

\* stage 4 has returned db_id: stage 5 starts
initialize_vector_database_done(S, db_id, embFault) ==
    ingest_to_vector_database_begin(
        Ev([S EXCEPT !.me.db_id = db_id], "ok", 4), embFault)

\* _initialize_vector_database: the provider is resolved from the shared
\* settings; Pinecone's initialize is handed to the executor, FAISS's and
\* Qdrant's run on the event loop, and stage 5 follows without suspension
initialize_vector_database_begin(S, fault, embFault) ==
    LET S1 == Used(Ev(S, "start", 4), 4)
        prefix == "Failed to initialize vector database: "
        name == S.settings.vector_db_provider
        provider == get_vector_database_provider(vdbProviders, name)
    IN  IF provider.kind = "raise"
        THEN FailStage(S1, 4, Wrap("VectorDatabaseError", prefix, provider),
                       provider)
        ELSE IF name = "pinecone"
        THEN [S1 EXCEPT !.me.provider = name,
                        !.me.db_id = <<"code-docs-">> \o ShortTaskId(S.me.task_id),
                        !.me.pc = "init"]
        ELSE IF name = "faiss"
        THEN LET out == FaissInitialize(provider.value.desc, S.faiss,
                             FaissIndexPath, faiss_index_name, fault)
             IN  IF out.ret.kind = "raise"
                 THEN FailStage(S1, 4,
                          Wrap("VectorDatabaseError", prefix, out.ret), out.ret)
                 ELSE initialize_vector_database_done(
                          [S1 EXCEPT !.faiss = out.names], out.ret.value, embFault)
        ELSE IF name = "qdrant"
        THEN LET out == QdrantInitialize(provider.value.desc, S.qdrant,
                             qdrant_collection_name, fault)
             IN  IF out.ret.kind = "raise"
                 THEN FailStage(S1, 4,
                          Wrap("VectorDatabaseError", prefix, out.ret), out.ret)
                 ELSE initialize_vector_database_done(
                          [S1 EXCEPT !.qdrant = out.names], out.ret.value, embFault)
        ELSE LET e == Raise("ValueError",
                         <<"Unsupported vector database provider: ", name>>)
             IN  FailStage(S1, 4, Wrap("VectorDatabaseError", prefix, e), e)

\* _initialize_vector_database after its await (Pinecone only): the
\* executor ran provider.initialize(index_name)
initialize_vector_database_resume(S, fault, embFault) ==
    LET out == PineconeInitialize(vdbProviders["pinecone"], S.pinecone,
                                  S.me.db_id, fault)
    IN  IF out.ret.kind = "raise"
        THEN FailStage(S, 4,
                 Wrap("VectorDatabaseError",
                      "Failed to initialize vector database: ", out.ret),
                 out.ret)
        ELSE initialize_vector_database_done(
                 [S EXCEPT !.pinecone = out.names], out.ret.value, embFault)

\* a chunk stage that goes on whatever it got
process_repository_resume_unchecked(S, loads, initFault, embFault) ==
    initialize_vector_database_begin(
        Ev([S EXCEPT !.me.chunks = load_and_split_with_extensions(loads),
                     !.h.dropped = DroppedFaults(loads),
                     !.h.loads = loads,
                     !.h.attempted = LoadCalls(FileExtensions, loads),
                     !.h.chunked = Len(load_and_split_with_extensions(loads))],
           "ok", 3),
        initFault, embFault)

\* _process_repository after its await; stage 4 follows without suspension
process_repository_resume(S, loads, initFault, embFault) ==
    LET chunks == load_and_split_with_extensions(loads)
        S1 == [S EXCEPT !.h.dropped = DroppedFaults(loads),
                        !.h.loads = loads,
                        !.h.attempted = LoadCalls(FileExtensions, loads),
                        !.h.chunked = Len(chunks)]
        empty == Raise("ProcessingError",
                       <<"No processable files found in repository">>)
    IN  IF chunks = <<>>
        THEN FailStage(S1, 3,
                 Wrap("ProcessingError",
                      "Failed to process repository files: ", empty),
                 empty)
        ELSE initialize_vector_database_begin(
                 Ev([S1 EXCEPT !.me.chunks = chunks], "ok", 3),
                 initFault, embFault)

\* _build_rag_chain up to its await: build_rag_chain is handed to the
\* executor inside a lambda, which reads the settings when it runs
build_rag_chain_begin(S) ==
    [Ev(S, "start", 6) EXCEPT !.me.pc = "build"]

\* ingest_documents of the three providers: the documents of a run carry
\* the path of its clone as their source. Pinecone's and Qdrant's
\* from_documents add to what the index / collection holds; FAISS builds a
\* new index and save_local writes it over the one at index_path
ingest_documents(stored, provider, target, repo_path, documents) ==
    LET new == {[target |-> target, source |-> repo_path,
                 document |-> documents[i]] : i \in DOMAIN documents}
    IN  IF provider = "faiss"
        THEN {v \in stored : v.target # target} \cup new
        ELSE stored \cup new

\* _ingest_to_vector_database after its await
ingest_to_vector_database_resume(S, fault) ==
    IF fault.kind = "raise"
    THEN FailStage(S, 5,
             Wrap("VectorDatabaseError",
                  "Failed to ingest to vector database: ", fault),
             fault)
    ELSE LET target == <<S.me.provider>> \o S.me.db_id
         IN  build_rag_chain_begin(
                 Ev([S EXCEPT !.me.vectorstore = target,
                              !.vectors = ingest_documents(
                                              @, S.me.provider, target,
                                              S.me.repo_path, S.me.chunks)],
                    "ok", 5))

\* the executor thread runs the lambda: build_rag_chain(vectorstore,
\* settings.llm_provider, settings.vector_db_provider) (modules/rag_pipeline.py)
\* retrieverFault is what get_retriever does, fault what get_llm and
\* RetrievalQA.from_chain_type do
build_rag_chain(S, retrieverFault, fault) ==
    LET S1 == Used(S, 6)
        vector_provider ==
            get_vector_database_provider(vdbProviders,
                                         S.settings.vector_db_provider)
        llm_provider == get_llm_provider(llmProviders, S.settings.llm_provider)
        ret == IF vector_provider.kind = "raise" THEN vector_provider
               ELSE IF retrieverFault.kind = "raise" THEN retrieverFault
               ELSE IF llm_provider.kind = "raise" THEN llm_provider
               ELSE IF fault.kind = "raise" THEN fault
               ELSE Return(<<"chain", S.settings.llm_provider>>
                           \o S.me.vectorstore)
    IN  [S1 EXCEPT !.me.pending = ret, !.me.pc = "built"]

\* _generate_documentation up to its await
generate_begin(S) ==
    [Ev(S, "start", 7) EXCEPT !.me.pc = "generate"]

\* _build_rag_chain after its await
build_rag_chain_resume(S) ==
    IF S.me.pending.kind = "raise"
    THEN FailStage(S, 6,
             Wrap("LLMError", "Failed to build RAG chain: ", S.me.pending),
             S.me.pending)
    ELSE generate_begin(Ev(S, "ok", 6))

\* the metadata step 8 hands to save_documentation
SaveMetadata(S) ==
    [task_id |-> S.me.task_id, chunks_processed |-> Len(S.me.chunks)]

\* a step 8 that wraps the storage exception like the stages before it
save_and_return_wrapped(S, documentation, now, saveFault) ==
    LET out == save_documentation(S.fs, S.me.repo_name, documentation,
                                  SaveMetadata(S), now, saveFault)
        S2 == [Ev(S, "start", 8) EXCEPT !.fs = out.fs, !.clock = now]
    IN  IF out.ret.kind = "raise"
        THEN FailStage(S2, 8,
                 Wrap("ProcessingError", "Failed to save documentation: ",
                      out.ret),
                 out.ret)
        ELSE Finally(Ev(S2, "ok", 8),
                     Return([documentation |-> documentation,
                             chunks_processed |-> Len(S.me.chunks),
                             storage_info |-> out.ret.value]))

\* step 8 and the return: save_documentation runs on the event loop and
\* its exception is not wrapped; now is the second the clock shows
save_and_return(S, documentation, now, saveFault) ==
    LET S1 == Ev(S, "start", 8)
        out == save_documentation(S.fs, S.me.repo_name, documentation,
                                  SaveMetadata(S), now, saveFault)
        S2 == [S1 EXCEPT !.fs = out.fs, !.clock = now]
    IN  IF out.ret.kind = "raise"
        THEN Finally([Ev(S2, "fail", 8) EXCEPT !.h.cause = out.ret], out.ret)
        ELSE Finally(Ev(S2, "ok", 8),
                     Return([documentation |-> documentation,
                             chunks_processed |-> Len(S.me.chunks),
                             storage_info |-> out.ret.value]))

\* a generate_design_doc without the fallback to rag_chain.run
generate_design_doc_single_attempt(invoke, fallback) ==
    [ret |-> invoke, calls |-> 1]

\* generate_design_doc (modules/generator.py): invoke is what
\* rag_chain.invoke does, fallback what rag_chain.run does when it is called
\* after invoke raised; when both raise, the exception of invoke is raised
generate_design_doc(invoke, fallback) ==
    IF invoke.kind = "return"
    THEN [ret |-> invoke, calls |-> 1]
    ELSE IF fallback.kind = "return"
    THEN [ret |-> fallback, calls |-> 2]
    ELSE [ret |-> invoke, calls |-> 2]

\* _generate_documentation after its await, then step 8; the chain writes
\* documentation when a call of it returns
generate_resume(S, fault, fallback, documentation, now, saveFault) ==
    LET answer(f) == IF f.kind = "raise" THEN f ELSE Return(documentation)
        out == generate_design_doc(answer(fault), answer(fallback))
        S1 == [S EXCEPT !.h.llm_calls = out.calls]
    IN  IF out.ret.kind = "raise"
        THEN FailStage(S1, 7,
                 Wrap("LLMError", "Failed to generate documentation: ",
                      out.ret),
                 out.ret)
        ELSE save_and_return(Ev(S1, "ok", 7), out.ret.value, now, saveFault)

\* a cleanup whose exception ends the task without an outcome
cleanup_repository_resume_hanging(S, fault) ==
    IF fault.kind = "raise"
    THEN [S EXCEPT !.me.pc = "cancelled"]
    ELSE [S EXCEPT !.dirs = RemoveTree(@, S.me.repo_path), !.me.pc = "done"]

\* a cleanup that lets the exception of cleanup_directory out
cleanup_repository_resume_raising(S, fault) ==
    IF fault.kind = "raise"
    THEN [S EXCEPT !.me.pc = "done", !.me.result = fault]
    ELSE [S EXCEPT !.dirs = RemoveTree(@, S.me.repo_path), !.me.pc = "done"]

\* _cleanup_repository after its await: cleanup_directory(repo_path) ran in
\* the executor; its exception is logged and dropped
cleanup_repository_resume(S, fault) ==
    IF fault.kind = "raise"
    THEN [S EXCEPT !.me.pc = "done"]
    ELSE [S EXCEPT !.dirs = RemoveTree(@, S.me.repo_path), !.me.pc = "done"]

\* ------------------------------------------------------------ the actions

Frame == UNCHANGED <<regVars, initLog, linesep, storeCall>>

\* the endpoint gets control back, without suspension, when the service
\* call has returned or raised
Respond(S) ==
    IF S.me.pc = "done"
    THEN [S EXCEPT !.me.response = ClientResponse(S.me.result)]
    ELSE S

\* generate_documentation is called
Start(r, repo_name, task_id, vdb, llm, mkFault) ==
    /\ run[r].pc = "idle"
    /\ Commit(r, Respond(generate_documentation_begin(
                             Bundle(r), repo_name, task_id, vdb, llm,
                             ToString(r), mkFault)))
    /\ Frame

\* clone_repo finished in the executor
CloneDone(r, fault, snap) ==
    /\ run[r].pc = "clone"
    /\ Commit(r, Respond(clone_repository_resume(Bundle(r), fault, snap)))
    /\ Frame

\* _load_and_split_with_extensions finished in the executor
ChunkDone(r, loads, initFault, embFault) ==
    /\ run[r].pc = "chunk"
    /\ Commit(r, process_repository_resume(Bundle(r), loads, initFault, embFault))
    /\ Frame

\* Pinecone's initialize finished in the executor
InitDone(r, fault, embFault) ==
    /\ run[r].pc = "init"
    /\ Commit(r, initialize_vector_database_resume(Bundle(r), fault, embFault))
    /\ Frame

\* ingest_documents finished in the executor
IngestDone(r, fault) ==
    /\ run[r].pc = "ingest"
    /\ Commit(r, ingest_to_vector_database_resume(Bundle(r), fault))
    /\ Frame

\* the executor thread evaluates the lambda of _build_rag_chain
BuildRun(r, retrieverFault, fault) ==
    /\ run[r].pc = "build"
    /\ Commit(r, build_rag_chain(Bundle(r), retrieverFault, fault))
    /\ Frame

\* the event loop resumes _build_rag_chain
BuildDone(r) ==
    /\ run[r].pc = "built"
    /\ Commit(r, build_rag_chain_resume(Bundle(r)))
    /\ Frame

\* generate_design_doc finished in the executor, dt seconds after the last
\* save
GenerateDone(r, fault, fallback, documentation, dt, saveFault) ==
    /\ run[r].pc = "generate"
    /\ Commit(r, generate_resume(Bundle(r), fault, fallback, documentation,
                                  clock + dt, saveFault))
    /\ Frame

\* cleanup_directory finished in the executor; the call returns or raises
CleanupDone(r, fault) ==
    /\ run[r].pc = "cleanup"
    /\ Commit(r, Respond(cleanup_repository_resume(Bundle(r), fault)))
    /\ Frame

\* get_saved_documentation(repo_name), called for the repository of run r
\* once the run has returned or raised
GetSaved(r) ==
    /\ run[r].pc = "done"
    /\ storeCall' = StoreCall("get", run[r].repo_name, <<>>, 0,
                              get_documentation_by_repo(Bundle(r).fs,
                                                        run[r].repo_name),
                              EmptyDir)
    /\ UNCHANGED <<regVars, vsVars, pipeVars, reposDir, metadataDir, instant,
                   clock, linesep>>

\* ------------------------------------------------------------- the inputs

\* exceptions a collaborator raises
Faults == {NoFault, Raise("OSError", <<"disk full">>), Raise("ValueError", <<"bad input">>)}

\* the task identifier the caller gives run r
TaskIdOf(r) == <<"t", ToString(r)>>

\* provider arguments: absent, registered names, an unregistered name
VdbArgs == {None, "pinecone", "faiss", "qdrant", "chroma"}
LlmArgs == {None, "openai", "azure_openai", "cohere"}

\* what a clone leaves on disk, as the validators see it
Snapshots ==
    [size_mb : {1, max_repo_size_mb + 1},
     processable_files : {0, 3},
     largest_file_mb : {1, max_file_size_mb + 1},
     scan_error : {NoFault}]
    \cup
    [size_mb : {1}, processable_files : {3}, largest_file_mb : {1},
     scan_error : {Raise("OSError", <<"disk full">>)}]

\* what load_and_split does for one extension: no chunk, some chunks, or
\* an exception
LoadsOf(ext) ==
    {Return(<<>>),
     Return(<<[source |-> ext, n |-> 1]>>),
     Return(<<[source |-> ext, n |-> 1], [source |-> ext, n |-> 2]>>),
     Raise("UnicodeDecodeError", <<"cannot decode ", ext>>)}

AllLoads ==
    {<<a, b>> : a \in LoadsOf(FileExtensions[1]), b \in LoadsOf(FileExtensions[2])}

\* what the LLM writes: one line, or two lines the first ending in CR LF
Documents == {<<"# Design">>, <<"# Design", "CR", "LF", "text">>}

\* what the LLM writes in the concurrent runs
PlainDocuments == {<<"# Design">>}

\* the repo_name argument of the runs
RepoName == <<"a">>

\* how save_documentation can fail: writing the artifact, writing the
\* sidecar, or writing the marker (which is logged and dropped)
SaveFaults ==
    {NoSaveFault} \cup
    {SaveFault(at, Raise("OSError", <<"disk full">>)) :
        at \in {"doc", "metadata", "latest", "latest_write"}}

\* environments of a run: every credential present, or none
PipelineEnvs == {[v \in EnvVars |-> x] : x \in {Unset, "v"}}

InitPipeline ==
    InitRegistry(PipelineEnvs) /\ InitVectorStores /\ InitService /\ InitStorage

\* One run of generate_documentation, with every input.
Next ==
    \/ \E vdb \in VdbArgs, llm \in LlmArgs, mkFault \in Faults :
          Start(1, RepoName, TaskIdOf(1), vdb, llm, mkFault)
    \/ \E fault \in Faults, snap \in Snapshots : CloneDone(1, fault, snap)
    \/ \E loads \in AllLoads, initFault \in Faults, embFault \in Faults :
          ChunkDone(1, loads, initFault, embFault)
    \/ \E fault \in Faults, embFault \in Faults : InitDone(1, fault, embFault)
    \/ \E fault \in Faults : IngestDone(1, fault)
    \/ \E retrieverFault \in Faults, fault \in Faults :
          BuildRun(1, retrieverFault, fault)
    \/ BuildDone(1)
    \/ \E fault \in Faults, fallback \in Faults, doc \in Documents,
          saveFault \in SaveFaults :
          GenerateDone(1, fault, fallback, doc, 1, saveFault)
    \/ \E fault \in Faults : CleanupDone(1, fault)
    \/ GetSaved(1)

Spec == InitPipeline /\ [][Next]_vars

\* ---------------------------------------------------- concurrent runs

\* the collaborators' outcomes in the concurrent runs
FewFaults == {NoFault, Raise("OSError", <<"disk full">>)}

\* a clone that passes validation, and files that chunk
GoodSnapshot ==
    [size_mb |-> 1, processable_files |-> 3, largest_file_mb |-> 1,
     scan_error |-> NoFault]
GoodLoads ==
    <<Return(<<[source |-> FileExtensions[1], n |-> 1]>>), Return(<<>>)>>

\* the overrides the concurrent callers pass: none, one, or both
FewOverrides ==
    {[vector_db_provider |-> None, llm_provider |-> None],
     [vector_db_provider |-> "faiss", llm_provider |-> None],
     [vector_db_provider |-> "qdrant", llm_provider |-> "openai"]}

\* the runs are called in the order of their numbers
MayStart(r) == \A q \in 1..(r - 1) : run[q].pc # "idle"

\* the steps of run r: its call, and each resumption after an await
RunStep(r) ==
    \/ /\ MayStart(r)
       /\ \E o \in FewOverrides :
             Start(r, RepoName, TaskIdOf(r), o.vector_db_provider,
                   o.llm_provider, NoFault)
    \/ \E fault \in FewFaults : CloneDone(r, fault, GoodSnapshot)
    \/ ChunkDone(r, GoodLoads, NoFault, NoFault)
    \/ InitDone(r, NoFault, NoFault)
    \/ \E fault \in FewFaults : IngestDone(r, fault)
    \/ BuildRun(r, NoFault, NoFault)
    \/ BuildDone(r)
    \/ \E doc \in PlainDocuments :
          GenerateDone(r, NoFault, NoFault, doc, 1, NoSaveFault)
    \/ \E fault \in FewFaults : CleanupDone(r, fault)

\* NumRuns calls of generate_documentation on one DocumentationService,
\* interleaved where a call awaits the executor.
NextConcurrent == \E r \in Runs : RunStep(r)

\* every credential is present
FullEnv == {[v \in EnvVars |-> "v"]}

InitConcurrent ==
    InitRegistry(FullEnv) /\ InitVectorStores /\ InitService /\ InitStorage

SpecConcurrent == InitConcurrent /\ [][NextConcurrent]_vars

\* ------------------------------------------------------- pipeline claims

Stages == 1..8
Last(q) == q[Len(q)]
Finished(r) == run[r].pc = "done"
FailedAt(r, k) ==
    /\ hist[r].events # <<>>
    /\ Last(hist[r].events) = [kind |-> "fail", stage |-> k]

\* the providers selected for run r: its own override if given, otherwise
\* the service default
Selected(r) ==
    OverrideSettings(DefaultSettings, run[r].vector_db_provider,
                     run[r].llm_provider)

StageOrder(ev) ==
    \A i \in DOMAIN ev :
        /\ ev[i].stage \in Stages
        /\ ev[i].kind = "start" =>
              /\ IF i = 1 THEN ev[i].stage = 1
                 ELSE ev[i - 1] = [kind |-> "ok", stage |-> ev[i].stage - 1]
              /\ \A j \in DOMAIN ev : ev[j] = ev[i] => j = i
        /\ ev[i].kind \in {"ok", "fail"} =>
              i > 1 /\ ev[i - 1] = [kind |-> "start", stage |-> ev[i].stage]
        /\ ev[i].kind = "fail" => i = Len(ev)

\* C1: within one run the eight stages start in the order 1..8, each at
\* most once, a stage starts only directly after its predecessor completed
\* successfully, and nothing starts after a stage has failed.
C1_StagesInOrder == \A r \in Runs : StageOrder(hist[r].events)

\* a run that went through all eight stages
C1_Witness_AllEightStages ==
    \E r \in Runs :
        /\ Finished(r)
        /\ Len(hist[r].events) = 16
        /\ Last(hist[r].events) = [kind |-> "ok", stage |-> 8]

\* C2: when a run has returned or raised, the temporary directory made for
\* it no longer exists and cleanup_directory was called exactly once,
\* provided the removal itself did not fail.
C2_WorkspaceRemovedExactlyOnce ==
    \A r \in Runs :
        ( /\ Finished(r)
          /\ run[r].temp_dir # NoPath
          /\ ~(hist[r].cleanups > 0 /\ run[r].repo_path \in dirs) )
        => /\ run[r].temp_dir \notin dirs
           /\ hist[r].cleanups = 1

\* C3: with no other run in flight, the provider settings after the call
\* has returned or raised equal the settings before the call.
C3_SettingsRestored ==
    \A r \in Runs :
        run[r].pc \in {"cleanup", "done"} => settings = hist[r].atCall

\* a run with both overrides that failed while generating
C3_Witness_FailedRunWithOverrides ==
    \E r \in Runs :
        /\ Finished(r)
        /\ FailedAt(r, 7)
        /\ run[r].result.kind = "raise"
        /\ Truthy(run[r].vector_db_provider)
        /\ Truthy(run[r].llm_provider)
        /\ Selected(r) # DefaultSettings

\* C4: once every run that was called has finished, the shared provider
\* settings are the ones from before the first run: no override leaks.
C4_NoOverrideLeaks ==
    (\A r \in Runs : run[r].pc \in {"idle", "done"})
        => settings = DefaultSettings

\* C5: the providers read by stages 4, 5 and 6 of a run are the ones
\* selected for that run (the vector DB in 4, 5, 6; the LLM in 5, 6).
C5_StagesUseOwnProviders ==
    \A r \in Runs :
        \A i \in DOMAIN hist[r].used :
            LET u == hist[r].used[i]
            IN  /\ u.vdb = Selected(r).vector_db_provider
                /\ u.stage \in {5, 6} => u.llm = Selected(r).llm_provider

\* the error type each stage raises
DesignatedError(k) ==
    CASE k = 1 -> "RepositoryError"
      [] k \in {2, 3} -> "ProcessingError"
      [] k \in {4, 5} -> "VectorDatabaseError"
      [] k \in {6, 7} -> "LLMError"

\* C6 as stated: every exception a collaborator raises in stages 1-7
\* surfaces as the stage's designated error type with the collaborator's
\* message inside the surfaced message.
C6_Original_EveryFailureSurfaces ==
    \A r \in Runs :
        Finished(r) =>
            /\ \A k \in 1..7 :
                  FailedAt(r, k) =>
                      /\ run[r].result.kind = "raise"
                      /\ run[r].result.type = DesignatedError(k)
                      /\ IsInfix(hist[r].cause.msg, run[r].result.msg)
            /\ \A i \in DOMAIN hist[r].dropped :
                  /\ run[r].result.kind = "raise"
                  /\ run[r].result.type = DesignatedError(3)
                  /\ IsInfix(hist[r].dropped[i].msg, run[r].result.msg)

\* C6: a run that fails in stage k of 1-7 raises the stage's designated
\* error type, and the message contains the message of the exception the
\* stage caught; an exception of load_and_split is not such an exception:
\* it is dropped, stage 3 fails only when no chunk was produced, then with
\* the fixed "No processable files found in repository" message, and
\* succeeds otherwise.
C6_DesignatedErrorPerStage ==
    \A r \in Runs :
        Finished(r) =>
            /\ \A k \in 1..7 :
                  FailedAt(r, k) =>
                      /\ run[r].result.kind = "raise"
                      /\ run[r].result.type = DesignatedError(k)
                      /\ IsInfix(hist[r].cause.msg, run[r].result.msg)
                      /\ Len(run[r].result.msg) > Len(hist[r].cause.msg)
            /\ FailedAt(r, 3) =>
                  /\ run[r].chunks = <<>>
                  /\ run[r].result.msg =
                        <<"Failed to process repository files: ",
                          "No processable files found in repository">>
            /\ (hist[r].dropped # <<>> /\ run[r].chunks # <<>>) =>
                  \E i \in DOMAIN hist[r].events :
                      hist[r].events[i] = [kind |-> "ok", stage |-> 3]

\* load_and_split raised for every extension and the run failed in stage 3
C6_Witness_ChunkingFailed ==
    \E r \in Runs :
        /\ Finished(r)
        /\ FailedAt(r, 3)
        /\ Len(hist[r].dropped) = Len(FileExtensions)
        /\ run[r].result.type = "ProcessingError"

\* the selected provider cannot be resolved
Unresolvable(r) ==
    \/ get_vector_database_provider(vdbProviders,
                                    Selected(r).vector_db_provider).kind = "raise"
    \/ get_llm_provider(llmProviders, Selected(r).llm_provider).kind = "raise"

\* C7: a run whose selected provider is unsupported or not configured
\* starts no stage and creates no temporary directory.
C7_ResolutionBeforeAnyStage ==
    \A r \in Runs :
        (run[r].pc # "idle" /\ Unresolvable(r)) =>
            /\ hist[r].events = <<>>
            /\ run[r].temp_dir = NoPath
            /\ run[r].temp_dir \notin dirs

\* --------------------------------------------- storage, called directly

\* how many save_documentation calls one behaviour holds
MaxSaves == 3

\* the greatest keep_versions a caller passes
MaxKeep == 2

\* instants one save takes: generated_at, the artifact, the marker
InstantsPerSave == 3

\* repository names: a plain one and one with an underscore that starts
\* with the plain one
RepoNames == {<<"a">>, <<"a", "_", "b">>}

\* documentation bodies: one line, and two lines the first ending in CR LF
Bodies == {<<"x">>, <<"x", "CR", "LF", "y">>}

\* keep_versions is any int of the request
Keeps == (0 - 1)..MaxKeep

\* the metadata save_documentation is given
SomeMetadata == [task_id |-> <<"t">>, chunks_processed |-> 1]

\* the storage as the operators take it
Fs == [repos |-> reposDir, meta |-> metadataDir, instant |-> instant,
       linesep |-> linesep]

SetFs(fs) ==
    /\ reposDir' = fs.repos
    /\ metadataDir' = fs.meta
    /\ instant' = fs.instant

StoreFrame == UNCHANGED <<regVars, vsVars, pipeVars, linesep>>

\* save_documentation(repo_name, documentation, metadata), dt seconds
\* after the last save
Save(repo_name, documentation, dt, fault) ==
    /\ instant < MaxSaves * InstantsPerSave
    /\ LET out == save_documentation(Fs, repo_name, documentation,
                                     SomeMetadata, clock + dt, fault)
       IN  /\ SetFs(out.fs)
           /\ clock' = clock + dt
           /\ storeCall' = StoreCall("save", repo_name, documentation, 0,
                                     out.ret, EmptyDir)
    /\ StoreFrame

\* cleanup_old_files(keep_versions)
Prune(keep_versions) ==
    /\ LET out == cleanup_old_files(Fs, keep_versions)
       IN  /\ SetFs(out.fs)
           /\ storeCall' = StoreCall("prune", <<>>, <<>>, keep_versions,
                                     out.ret,
                                     [repos |-> reposDir, meta |-> metadataDir])
    /\ UNCHANGED clock
    /\ StoreFrame

\* get_documentation_by_repo(repo_name)
GetLatest(repo_name) ==
    /\ storeCall' = StoreCall("get", repo_name, <<>>, 0,
                              get_documentation_by_repo(Fs, repo_name),
                              EmptyDir)
    /\ UNCHANGED <<reposDir, metadataDir, instant, clock>>
    /\ StoreFrame

\* the marker cannot be opened; it is logged and the save goes on
QuietSaveFaults ==
    {NoSaveFault, SaveFault("latest", Raise("OSError", <<"disk full">>))}

\* the marker write may fail at open or after the file was truncated;
\* either way it is logged and the save goes on
MarkerFaults ==
    QuietSaveFaults \cup
    {SaveFault("latest_write", Raise("OSError", <<"disk full">>))}

NextStorage ==
    \/ \E repo_name \in RepoNames, documentation \in Bodies, dt \in {0, 1},
          fault \in QuietSaveFaults :
          Save(repo_name, documentation, dt, fault)
    \/ \E keep_versions \in Keeps : Prune(keep_versions)
    \/ \E repo_name \in RepoNames : GetLatest(repo_name)

SpecStorage == InitConcurrent /\ [][NextStorage]_vars

\* the storage with every way the marker write fails
NextMarkerFaults ==
    \/ \E repo_name \in RepoNames, documentation \in Bodies, dt \in {0, 1},
          fault \in MarkerFaults :
          Save(repo_name, documentation, dt, fault)
    \/ \E keep_versions \in Keeps : Prune(keep_versions)
    \/ \E repo_name \in RepoNames : GetLatest(repo_name)

SpecMarkerFaults == InitConcurrent /\ [][NextMarkerFaults]_vars

\* -------------------------------------------------------- storage claims

\* the logical key repoName_timestamp of a save at second t
ArtifactKey(repo_name, t) == repo_name \o <<"_">> \o Timestamp(t)
ArtifactName(key) == key \o <<".md">>
SidecarName(key) == key \o <<"_", "metadata", ".json">>

Keys == {ArtifactKey(r, t) : r \in RepoNames, t \in 0..MaxSaves}
KeysOf(repo_name) == {ArtifactKey(repo_name, t) : t \in 0..MaxSaves}

\* the artifact files saved under repo_name that a directory holds
ArtifactsOf(repos, repo_name) ==
    {ArtifactName(k) : k \in KeysOf(repo_name)} \cap DOMAIN repos

\* the sidecar that belongs to an artifact file
PairedSidecar(artifact) ==
    SidecarName(SubSeq(artifact, 1, Len(artifact) - 1))

Markers == {LatestLink(r) : r \in RepoNames}

\* what a marker file names
MarkerTarget(repos, repo_name) ==
    Strip(TextRead(repos[LatestLink(repo_name)].content))

\* C11: a successful save(repo, body, meta) immediately followed by
\* getLatest(repo) returns exactly body.
C11_SaveThenGetLatestReturnsBody ==
    [][(/\ storeCall.op = "save"
        /\ storeCall.ret.kind = "return"
        /\ storeCall'.op = "get"
        /\ storeCall'.repo_name = storeCall.repo_name)
       => storeCall'.ret = Some(storeCall.documentation)]_vars

\* C12: for every repository name the latest marker is absent or names
\* an artifact file that exists.
C12_MarkerTargetExists ==
    \A r \in RepoNames :
        LatestLink(r) \in DOMAIN reposDir =>
            MarkerTarget(reposDir, r) \in DOMAIN reposDir \ Markers

\* C13: after completed, non-failing saves and prunes every artifact file
\* has the sidecar of its key, and every sidecar has its artifact file.
C13_ArtifactsAndSidecarsPaired ==
    /\ \A n \in DOMAIN reposDir \ Markers :
          \E k \in Keys :
              /\ n = ArtifactName(k)
              /\ SidecarName(k) \in DOMAIN metadataDir
              /\ metadataDir[SidecarName(k)].documentation_file = n
    /\ \A m \in DOMAIN metadataDir :
          \E k \in Keys : m = SidecarName(k) /\ ArtifactName(k) \in DOMAIN reposDir

\* a prune has removed artifacts and left others
C13_Witness_PrunedAndKept ==
    /\ storeCall.op = "prune"
    /\ storeCall.ret.value > 0
    /\ DOMAIN reposDir \ Markers # {}
    /\ DOMAIN metadataDir # DOMAIN storeCall.before.meta

\* C14: pruneOld(k) on a repository with n > k >= 0 artifacts removes the
\* n - k artifacts with the oldest modification times and their sidecars;
\* the k newest remain, untouched, each with its sidecar.
C14_PruneKeepsNewest ==
    storeCall.op = "prune" =>
        \A r \in RepoNames :
            LET before == storeCall.before
                k == storeCall.keep_versions
                had == ArtifactsOf(before.repos, r)
                kept == ArtifactsOf(reposDir, r)
            IN  (0 <= k /\ k < Cardinality(had)) =>
                    /\ kept \subseteq had
                    /\ Cardinality(kept) = k
                    /\ \A f \in kept, g \in had \ kept :
                          before.repos[g].mtime < before.repos[f].mtime
                    /\ \A f \in kept :
                          /\ reposDir[f] = before.repos[f]
                          /\ PairedSidecar(f) \in DOMAIN metadataDir
                          /\ metadataDir[PairedSidecar(f)]
                                = before.meta[PairedSidecar(f)]
                    /\ \A g \in had \ kept :
                          PairedSidecar(g) \notin DOMAIN metadataDir

\* pruneOld(1) on a repository with three artifacts
C14_Witness_TwoOfThreeRemoved ==
    /\ storeCall.op = "prune"
    /\ storeCall.keep_versions = 1
    /\ \E r \in RepoNames :
          /\ Cardinality(ArtifactsOf(storeCall.before.repos, r)) = 3
          /\ Cardinality(ArtifactsOf(reposDir, r)) = 1

\* C15: pruneOld(k) leaves every marker file as it was, and leaves every
\* artifact and sidecar of a repository with at most k artifacts as they
\* were, whatever the other repositories hold.
C15_PruneFrame ==
    storeCall.op = "prune" =>
        LET before == storeCall.before
            k == storeCall.keep_versions
        IN  /\ \A m \in Markers \cap DOMAIN before.repos :
                  m \in DOMAIN reposDir /\ reposDir[m] = before.repos[m]
            /\ \A r \in RepoNames :
                  Cardinality(ArtifactsOf(before.repos, r)) <= k =>
                      \A f \in ArtifactsOf(before.repos, r) :
                          /\ f \in DOMAIN reposDir
                          /\ reposDir[f] = before.repos[f]
                          /\ PairedSidecar(f) \in DOMAIN metadataDir
                          /\ metadataDir[PairedSidecar(f)]
                                = before.meta[PairedSidecar(f)]

\* pruneOld(1) shortened one repository while the other, whose name is a
\* prefix of the first, had one artifact and a marker
C15_Witness_OtherGroupExceeded ==
    /\ storeCall.op = "prune"
    /\ storeCall.keep_versions = 1
    /\ Cardinality(ArtifactsOf(storeCall.before.repos, <<"a", "_", "b">>)) = 2
    /\ Cardinality(ArtifactsOf(reposDir, <<"a", "_", "b">>)) = 1
    /\ Cardinality(ArtifactsOf(storeCall.before.repos, <<"a">>)) = 1
    /\ LatestLink(<<"a">>) \in DOMAIN reposDir

\* what getLatest is to return
ExpectedLatest(repos, repo_name) ==
    LET arts == ArtifactsOf(repos, repo_name)
    IN  IF /\ LatestLink(repo_name) \in DOMAIN repos
           /\ MarkerTarget(repos, repo_name) \in DOMAIN repos
        THEN Some(TextRead(repos[MarkerTarget(repos, repo_name)].content))
        ELSE IF arts = {}
        THEN Nothing
        ELSE Some(TextRead(repos[
                 CHOOSE f \in arts :
                     \A g \in arts : repos[g].mtime <= repos[f].mtime].content))

\* C17: getLatest(repo) returns the body of the marker's target when the
\* marker and its target exist; otherwise the body of the repository's
\* most recently modified artifact, or absent when it has none; never the
\* content of a marker file.
C17_GetLatestResolvesMarkerOrScans ==
    storeCall.op = "get" =>
        storeCall.ret = ExpectedLatest(reposDir, storeCall.repo_name)

\* ------------------------------------------------------------- listing

\* what a sidecar file may hold after it was damaged or edited: bytes that
\* do not parse, JSON that is not an object, an object without
\* generated_at, an object whose generated_at is a number
DamagedSidecars ==
    {[json |-> j, task_id |-> <<>>, chunks_processed |-> 0,
      generated_at |-> g, documentation_file |-> <<>>] :
        j \in {"invalid", "list"}, g \in {[kind |-> "missing", t |-> 0]}}
    \cup
    {[json |-> "dict", task_id |-> <<>>, chunks_processed |-> 0,
      generated_at |-> g, documentation_file |-> <<>>] :
        g \in {[kind |-> "missing", t |-> 0], [kind |-> "int", t |-> 0]}}

\* a sidecar file is overwritten from outside the program
Corrupt(m, sidecar) ==
    /\ m \in DOMAIN metadataDir
    /\ metadataDir[m] # sidecar
    /\ metadataDir' = Put(metadataDir, m, sidecar)
    /\ storeCall' = StoreCall("corrupt", m, <<>>, 0, NoCall, EmptyDir)
    /\ UNCHANGED <<reposDir, instant, clock>>
    /\ StoreFrame

\* get_documentation_list()
ListAll ==
    /\ \E docs_list \in get_documentation_list(Fs) :
          storeCall' = StoreCall("list", <<>>, <<>>, 0, docs_list, EmptyDir)
    /\ UNCHANGED <<reposDir, metadataDir, instant, clock>>
    /\ StoreFrame

NextListing ==
    \/ \E repo_name \in RepoNames, dt \in {0, 1} :
          Save(repo_name, <<"x">>, dt, NoSaveFault)
    \/ \E k \in Keys, sidecar \in DamagedSidecars :
          Corrupt(SidecarName(k), sidecar)
    \/ ListAll

SpecListing == InitConcurrent /\ [][NextListing]_vars

\* the sidecars that parse to a JSON object
ReadableSidecars == {m \in DOMAIN metadataDir : metadataDir[m].json = "dict"}

\* C16: listAll returns one entry per readable sidecar, ordered by
\* generated_at descending; unreadable sidecars are skipped and the other
\* entries are still returned.
C16_ListAllReturnsEveryReadableSidecar ==
    storeCall.op = "list" =>
        LET docs_list == storeCall.ret
        IN  /\ Len(docs_list) = Cardinality(ReadableSidecars)
            /\ {docs_list[i].metadata_file_path : i \in DOMAIN docs_list}
                  = ReadableSidecars
            /\ \A i \in DOMAIN docs_list :
                  docs_list[i].metadata
                      = metadataDir[docs_list[i].metadata_file_path]
            /\ \A i, j \in DOMAIN docs_list :
                  (/\ i < j
                   /\ docs_list[i].metadata.generated_at.kind = "str"
                   /\ docs_list[j].metadata.generated_at.kind = "str")
                  => docs_list[i].metadata.generated_at.t
                        >= docs_list[j].metadata.generated_at.t

\* ------------------------------------------- pipeline claims, continued

DomainErrors ==
    {"RepositoryError", "ProcessingError", "VectorDatabaseError", "LLMError"}

Started(r, k) ==
    \E i \in DOMAIN hist[r].events :
        hist[r].events[i] = [kind |-> "start", stage |-> k]

\* C18: when save_documentation raises in step 8, generate_documentation
\* raises that very exception, not a domain error, the provider settings
\* are restored and cleanup_directory is called.
C18_StorageFailureNotWrapped ==
    \A r \in Runs :
        (Finished(r) /\ FailedAt(r, 8)) =>
            /\ run[r].result = hist[r].cause
            /\ run[r].result.kind = "raise"
            /\ run[r].result.type \notin DomainErrors
            /\ settings = hist[r].atCall
            /\ hist[r].cleanups = 1

\* the sidecar could not be written: the artifact is on disk without it
C18_Witness_SidecarWriteFailed ==
    \E r \in Runs :
        /\ Finished(r)
        /\ FailedAt(r, 8)
        /\ run[r].result.type = "OSError"
        /\ DOMAIN reposDir # {}
        /\ DOMAIN metadataDir = {}

\* C19: the step that ends the cleanup leaves the outcome of the run as
\* it was: the stage's error if a stage failed, the result if all eight
\* stages succeeded, also when cleanup_directory raised.
C19_CleanupFailureNeverRaised ==
    [][\A r \in Runs :
          (run[r].pc = "cleanup" /\ run'[r].pc = "done") =>
              /\ run'[r].result = run[r].result
              /\ Last(hist[r].events).kind = "ok" =>
                    /\ Last(hist[r].events).stage = 8
                    /\ run'[r].result.kind = "return"
              /\ Last(hist[r].events).kind = "fail" =>
                    /\ run'[r].result.kind = "raise"
                    /\ IsInfix(hist[r].cause.msg, run'[r].result.msg)]_vars

\* cleanup_directory raised after all eight stages succeeded: the cloned
\* repository is still on disk and the caller has the documentation
C19_Witness_CleanupFailedAfterSuccess ==
    \E r \in Runs :
        /\ Finished(r)
        /\ hist[r].cleanups = 1
        /\ run[r].repo_path \in dirs
        /\ Last(hist[r].events) = [kind |-> "ok", stage |-> 8]
        /\ run[r].result.kind = "return"

\* C20: when every extension has been attempted and no chunk came out,
\* stage 3 fails with ProcessingError and no later stage starts; a stage
\* after the third starts only with chunks.
C20_NoChunksIsFailure ==
    \A r \in Runs :
        /\ hist[r].chunked = 0 =>
              /\ FailedAt(r, 3)
              /\ run[r].result.kind = "raise"
              /\ run[r].result.type = "ProcessingError"
              /\ \A k \in 4..8 : ~Started(r, k)
        /\ \A k \in 4..8 :
              Started(r, k) => (hist[r].chunked > 0 /\ run[r].chunks # <<>>)

\* no file matched: every load returned nothing and none raised
C20_Witness_NoFileMatched ==
    \E r \in Runs :
        /\ Finished(r)
        /\ hist[r].chunked = 0
        /\ hist[r].dropped = <<>>
        /\ FailedAt(r, 3)

\* the chunks of the extensions whose load_and_split returned, in the order
\* of the request
RECURSIVE ChunksOfSucceeded(_)
ChunksOfSucceeded(loads) ==
    IF Len(loads) = 0
    THEN <<>>
    ELSE ChunksOfSucceeded(SubSeq(loads, 1, Len(loads) - 1))
         \o (IF Last(loads).kind = "return" THEN Last(loads).value ELSE <<>>)

\* C21: once the chunking of stage 3 has run, load_and_split was called for
\* every requested extension in request order, whichever of them failed,
\* and the chunks stage 3 got are exactly the chunks of the extensions that
\* succeeded, concatenated in request order; when there is any, stage 3
\* succeeds with them.
C21_FailedExtensionsSkipped ==
    \A r \in Runs :
        hist[r].chunked >= 0 =>
            LET expected == ChunksOfSucceeded(hist[r].loads)
            IN  /\ hist[r].attempted = FileExtensions
                /\ Len(hist[r].loads) = Len(FileExtensions)
                /\ hist[r].chunked = Len(expected)
                /\ expected # <<>> =>
                      /\ run[r].chunks = expected
                      /\ ~FailedAt(r, 3)
                      /\ Started(r, 4)

\* the first extension failed, the second gave two chunks, and the run
\* went on to the vector store with exactly these two
C21_Witness_FirstExtensionFailed ==
    \E r \in Runs :
        /\ hist[r].chunked = 2
        /\ hist[r].loads[1].kind = "raise"
        /\ hist[r].loads[2].kind = "return"
        /\ run[r].chunks = hist[r].loads[2].value
        /\ Started(r, 5)

\* the clone's measured size is over the limit
Oversize(snap) == snap.scan_error.kind # "raise" /\ snap.size_mb > max_repo_size_mb

\* C22: a run whose clone measures more than max_repo_size_mb fails in
\* stage 2 with ProcessingError; the error is the one of the size check,
\* naming the measured size, whatever the file-type check would have
\* said; and the run starts no later stage: nothing is chunked, no vector
\* store is touched, no provider is read and nothing is stored.
C22_OversizeFailsInValidation ==
    \A r \in Runs :
        Oversize(hist[r].snap) =>
            /\ FailedAt(r, 2)
            /\ run[r].result.kind = "raise"
            /\ run[r].result.type = "ProcessingError"
            /\ hist[r].cause.type = "ProcessingError"
            /\ hist[r].cause.msg[1] = "Repository size ("
            /\ IsInfix(<<"Repository size (", ToString(hist[r].snap.size_mb)>>,
                       run[r].result.msg)
            /\ \A k \in 3..8 : ~Started(r, k)
            /\ hist[r].chunked < 0
            /\ hist[r].attempted = <<>>
            /\ hist[r].used = <<>>
            /\ run[r].chunks = <<>>
            /\ run[r].db_id = <<>>
            /\ pineconeIndexes = {} /\ qdrantCollections = {} /\ faissDirs = {}
            /\ reposDir = EmptyDir /\ metadataDir = EmptyDir

\* the clone is too big and holds no processable file: both checks would
\* fail, and the run failed with the size error
C22_Witness_OversizeWithoutProcessableFiles ==
    \E r \in Runs :
        /\ Finished(r)
        /\ Oversize(hist[r].snap)
        /\ hist[r].snap.processable_files = 0
        /\ FailedAt(r, 2)
        /\ run[r].result.type = "ProcessingError"

\* the run returned a result
Succeeded(r) == Finished(r) /\ run[r].result.kind = "return"

\* C23: when a run has succeeded, chunks_processed of the result and of
\* the sidecar the run wrote both equal the number of chunks stage 3
\* produced, which are the chunks handed to the ingest stage, and a
\* getSaved for the run's repository name right after the run returns the
\* documentation of stage 7.
C23_ResultMatchesWhatWasStored ==
    \A r \in Runs :
        Succeeded(r) =>
            LET res == run[r].result.value
                sidecar == res.storage_info.metadata_filename
            IN  /\ res.chunks_processed = hist[r].chunked
                /\ res.chunks_processed = Len(run[r].chunks)
                /\ sidecar \in DOMAIN metadataDir
                /\ metadataDir[sidecar].chunks_processed = hist[r].chunked
                /\ (storeCall.op = "get" /\ storeCall.repo_name = run[r].repo_name)
                      => storeCall.ret = Some(res.documentation)

\* C23, the counts alone
C23_CountsMatch ==
    \A r \in Runs :
        Succeeded(r) =>
            LET res == run[r].result.value
                sidecar == res.storage_info.metadata_filename
            IN  /\ res.chunks_processed = hist[r].chunked
                /\ res.chunks_processed = Len(run[r].chunks)
                /\ sidecar \in DOMAIN metadataDir
                /\ metadataDir[sidecar].chunks_processed = hist[r].chunked

\* ------------------------- the environment changes while the process runs

\* the variables that are set, changed or removed after the registries
\* were built
ChangedVars == {"PINECONE_API_KEY", "AZURE_OPENAI_ENDPOINT"}

\* os.environ[name] = value, or del os.environ[name]: the descriptors in
\* the registries hold what their __init__ read
SetEnv(name, value) ==
    /\ env[name] # value
    /\ env' = [env EXCEPT ![name] = value]
    /\ UNCHANGED <<vdbProviders, llmProviders, call, vsVars, pipeVars, storeVars>>

\* one run of generate_documentation whose collaborators do not fail
NextOneRun ==
    \/ \E o \in FewOverrides :
          Start(1, RepoName, TaskIdOf(1), o.vector_db_provider,
                o.llm_provider, NoFault)
    \/ CloneDone(1, NoFault, GoodSnapshot)
    \/ ChunkDone(1, GoodLoads, NoFault, NoFault)
    \/ InitDone(1, NoFault, NoFault)
    \/ IngestDone(1, NoFault)
    \/ BuildRun(1, NoFault, NoFault)
    \/ BuildDone(1)
    \/ \E doc \in PlainDocuments : GenerateDone(1, NoFault, NoFault, doc, 1, NoSaveFault)
    \/ CleanupDone(1, NoFault)

NextEnvironment ==
    \/ \E name \in ChangedVars, value \in EnvValues : SetEnv(name, value)
    \/ NextRegistry
    \/ NextOneRun

SpecEnvironment == InitUniformEnv /\ [][NextEnvironment]_vars

\* what the registries answer in the state they are in
Answers(vdb, llm) ==
    [configuredVdb |-> {n \in ClosedVdbSet : vdb_is_configured(vdb, n)},
     configuredLlm |-> {n \in ClosedLlmSet : llm_is_configured(llm, n)},
     resolveVdb |-> [n \in AskedNames |-> get_vector_database_provider(vdb, n)],
     resolveLlm |-> [n \in AskedNames |-> get_llm_provider(llm, n)],
     listVdb |-> vdb_get_configured_providers(vdb),
     listLlm |-> llm_get_configured_providers(llm)]

\* C26: no step, be it a change of the environment, a registry call or a
\* step of the pipeline, adds, removes or replaces a registry entry or
\* changes what is_configured, resolve and list_configured answer; and a
\* call is answered from the descriptors as they were built, whatever the
\* environment holds by then.
C26_ConfigurationFixedAtConstruction ==
    [][/\ DOMAIN vdbProviders' = DOMAIN vdbProviders
       /\ DOMAIN llmProviders' = DOMAIN llmProviders
       /\ vdbProviders' = vdbProviders
       /\ llmProviders' = llmProviders
       /\ Answers(vdbProviders', llmProviders') = Answers(vdbProviders, llmProviders)
       /\ call'.op = "get_vector_database_provider" =>
              call'.ret = Answers(vdbProviders, llmProviders).resolveVdb[call'.arg]
       /\ call'.op = "get_llm_provider" =>
              call'.ret = Answers(vdbProviders, llmProviders).resolveLlm[call'.arg]
       /\ call'.op = "vdb_get_configured_providers" =>
              call'.ret.value = Answers(vdbProviders, llmProviders).listVdb
       /\ call'.op = "llm_get_configured_providers" =>
              call'.ret.value = Answers(vdbProviders, llmProviders).listLlm]_vars

\* the Pinecone key was present when the registry was built and has been
\* removed since; resolve still returns the provider, and a run that
\* selected Pinecone has initialized its index
C26_Witness_KeyRemovedAfterConstruction ==
    /\ env["PINECONE_API_KEY"] = Unset
    /\ vdbProviders["pinecone"].api_key = "v"
    /\ call.op = "get_vector_database_provider"
    /\ call.arg = "pinecone"
    /\ call.ret.kind = "return"
    /\ pineconeIndexes # {}

\* stage 5 of the run has ingested its chunks
Ingested(r) ==
    \E i \in DOMAIN hist[r].events :
        hist[r].events[i] = [kind |-> "ok", stage |-> 5]

\* C25: whatever the provider, two runs with different task identifiers
\* that have ingested did so into different indexes / collections / index
\* paths, and the target of a run carries the run's task identifier.
C25_TargetPerTask ==
    \A r, q \in Runs :
        (r # q /\ Ingested(r) /\ Ingested(q)
         /\ run[r].task_id # run[q].task_id)
        => /\ run[r].vectorstore # run[q].vectorstore
           /\ IsInfix(ShortTaskId(run[r].task_id), run[r].vectorstore)

\* ------------------------------- concurrent runs for one repository

\* what the LLM writes for run r
DocumentOf(r) == <<"# Design ", ToString(r)>>

\* NumRuns calls of generate_documentation for the same repository name,
\* none with an override, no collaborator failing; two runs may reach
\* step 8 within the same second
NextSameRepository ==
    \E r \in Runs :
        \/ MayStart(r) /\ Start(r, RepoName, TaskIdOf(r), None, None, NoFault)
        \/ CloneDone(r, NoFault, GoodSnapshot)
        \/ ChunkDone(r, GoodLoads, NoFault, NoFault)
        \/ InitDone(r, NoFault, NoFault)
        \/ IngestDone(r, NoFault)
        \/ BuildRun(r, NoFault, NoFault)
        \/ BuildDone(r)
        \/ \E dt \in {0, 1} :
              GenerateDone(r, NoFault, NoFault, DocumentOf(r), dt, NoSaveFault)
        \/ CleanupDone(r, NoFault)

SpecSameRepository == InitConcurrent /\ [][NextSameRepository]_vars

\* C27: when runs for the same repository name have persisted their
\* artifacts, the latest marker holds the complete file name of an existing
\* artifact that one of them wrote, and the artifact and the sidecar of
\* every run are stored as that run wrote them.
C27_ConcurrentSavesIntact ==
    LET saved == {r \in Runs : run[r].result.kind = "return"}
        written(r) == run[r].result.value.storage_info
    IN  /\ saved # {} =>
              /\ LatestLink(RepoName) \in DOMAIN reposDir
              /\ MarkerTarget(reposDir, RepoName)
                    \in {written(r).doc_filename : r \in saved}
              /\ MarkerTarget(reposDir, RepoName) \in DOMAIN reposDir
        /\ \A r \in saved :
              /\ written(r).doc_filename \in DOMAIN reposDir
              /\ reposDir[written(r).doc_filename].content
                    = run[r].result.value.documentation
              /\ written(r).metadata_filename \in DOMAIN metadataDir
              /\ metadataDir[written(r).metadata_filename].task_id
                    = run[r].task_id

\* ------------------------------------------- storage claims, continued

\* C24: a successful save adds exactly one artifact file and one sidecar
\* and leaves every artifact and sidecar of the earlier saves as it was,
\* also when the earlier save was in the same clock second.
C24_SaveAddsOneArtifact ==
    [][(storeCall'.op = "save" /\ storeCall'.ret.kind = "return"
        /\ instant' > instant)
       => /\ Cardinality(DOMAIN reposDir' \ Markers)
                = Cardinality(DOMAIN reposDir \ Markers) + 1
          /\ Cardinality(DOMAIN metadataDir') = Cardinality(DOMAIN metadataDir) + 1
          /\ \A n \in DOMAIN reposDir \ Markers : reposDir'[n] = reposDir[n]
          /\ \A m \in DOMAIN metadataDir : metadataDir'[m] = metadataDir[m]]_vars

\* the repositories whose group a prune with k shortens
Exceeding(repos, k) ==
    {r \in RepoNames :
        LET n == Cardinality(ArtifactsOf(repos, r)) IN n >= 1 /\ n > k}

\* the files a prune removed
RemovedBy(before) ==
    Cardinality(DOMAIN before.repos \ DOMAIN reposDir)
        + Cardinality(DOMAIN before.meta \ DOMAIN metadataDir)

\* C28 as stated: pruneOld(k) returns the number of files it deleted, 0
\* when no group exceeds k, and 2 * (n - k) when one repository has n > k
\* artifacts, whatever k is.
C28_Original_TwicePerExcess ==
    storeCall.op = "prune" =>
        LET before == storeCall.before
            k == storeCall.keep_versions
        IN  /\ storeCall.ret = Return(RemovedBy(before))
            /\ Exceeding(before.repos, k) = {} => storeCall.ret = Return(0)
            /\ \A r \in RepoNames :
                  Exceeding(before.repos, k) = {r} =>
                      storeCall.ret.value
                          = 2 * (Cardinality(ArtifactsOf(before.repos, r)) - k)

\* C28: pruneOld(k) returns the number of files it deleted, artifacts and
\* sidecars; that is 0 when no group exceeds k, and 2 * (n - k) when
\* k >= 0 and one repository has n > k artifacts, each with its sidecar.
C28_PruneReturnsFilesDeleted ==
    storeCall.op = "prune" =>
        LET before == storeCall.before
            k == storeCall.keep_versions
        IN  /\ storeCall.ret = Return(RemovedBy(before))
            /\ Exceeding(before.repos, k) = {} => storeCall.ret = Return(0)
            /\ \A r \in RepoNames :
                  (k >= 0 /\ Exceeding(before.repos, k) = {r}) =>
                      storeCall.ret.value
                          = 2 * (Cardinality(ArtifactsOf(before.repos, r)) - k)

\* pruneOld(1) on three artifacts of one repository returned 4
C28_Witness_FourFilesCounted ==
    /\ storeCall.op = "prune"
    /\ storeCall.keep_versions = 1
    /\ \E r \in RepoNames :
          /\ Exceeding(storeCall.before.repos, 1) = {r}
          /\ Cardinality(ArtifactsOf(storeCall.before.repos, r)) = 3
    /\ storeCall.ret = Return(4)
    /\ RemovedBy(storeCall.before) = 4

\* ------------------------------------------- the client's view of a run

\* the stable code of each domain error
StableCode(type) ==
    CASE type = "RepositoryError" -> "REPOSITORY_ERROR"
      [] type = "ProcessingError" -> "PROCESSING_ERROR"
      [] type = "VectorDatabaseError" -> "VECTOR_DB_ERROR"
      [] type = "LLMError" -> "LLM_ERROR"

\* C29: when a run of a generate-documentation request has raised a domain
\* error, the client's response carries that error's stable code and its
\* message; when it has raised anything else, the response is an internal
\* error that does not contain the exception's text.
C29_DomainErrorsKeepTheirCode ==
    \A r \in Runs :
        (Finished(r) /\ run[r].result.kind = "raise") =>
            IF run[r].result.type \in DomainErrors
            THEN /\ run[r].response.code = StableCode(run[r].result.type)
                 /\ IsInfix(run[r].result.msg, run[r].response.message)
            ELSE /\ run[r].response.status_code = 500
                 /\ ~IsInfix(run[r].result.msg, run[r].response.message)

\* C29, the part about exceptions that are not domain errors
C29_UnclassifiedIsOpaque ==
    \A r \in Runs :
        (Finished(r) /\ run[r].result.kind = "raise"
         /\ run[r].result.type \notin DomainErrors)
        => /\ run[r].response.status_code = 500
           /\ ~IsInfix(run[r].result.msg, run[r].response.message)

\* ------------------------------------------------- blocking-call isolation

\* the events of a run hold this one
Has(ev, kind, stage) ==
    \E i \in DOMAIN ev : ev[i] = [kind |-> kind, stage |-> stage]

\* C30: each of the stages 1-7 is handed to the executor and awaited: a
\* stage does not start and complete within one uninterrupted step of the
\* event loop, so that between its start and its completion the steps of
\* other runs can be taken; and a stage starts only when the stage before
\* it has completed.
C30_EveryStageAwaitsExecutor ==
    [][\A r \in Runs, k \in 1..7 :
          /\ Has(hist'[r].events, "ok", k) => Has(hist[r].events, "start", k)
          /\ (k > 1 /\ Has(hist'[r].events, "start", k))
                => Has(hist'[r].events, "ok", k - 1)]_vars

\* ------------------------------------------------- calls per stage

\* C31: stage 7 invokes the chain at most once in a run, and a run whose
\* generation failed raised LLMError after exactly one invocation.
C31_OneLlmInvocation ==
    \A r \in Runs :
        /\ hist[r].llm_calls <= 1
        /\ FailedAt(r, 7)
             => /\ run[r].result.type = "LLMError"
                /\ hist[r].llm_calls = 1

\* ------------------------------------------ what the vector stores keep

\* the documents of run r that a vector store holds
StoredOf(r) == {v \in vectors : v.source = run[r].repo_path}

\* C32: when a run has ended, no vector-store target holds a chunk it
\* produced, so the target a later run ingests into holds that run's
\* chunks only.
C32_NoChunkOutlivesRun ==
    \A r \in Runs :
        /\ Finished(r) => StoredOf(r) = {}
        /\ \A q \in Runs \ {r} :
              (Finished(r) /\ Ingested(q))
              => \A v \in StoredOf(r) : v.target # run[q].vectorstore

\* ------------------------------------------------------------ termination

\* the event loop and the executor are fair to every run: a call that can
\* be made is made, and a dispatched call that has returned or raised is
\* resumed
SpecFair == SpecConcurrent /\ \A r \in Runs : WF_vars(RunStep(r))

\* run r has its outcome
Outcome(r) == run[r].result.kind \in {"return", "raise"}

\* C33: every run that was called ends; its outcome is a result or an
\* error and is set once; the step that sets it has put the provider
\* settings back to what the run saved at its call; and a run that ended
\* after its clone succeeded has dispatched cleanup_directory.
C33_EveryRunEnds ==
    /\ \A r \in Runs : (run[r].pc # "idle") ~> Finished(r)
    /\ [](\A r \in Runs :
             Finished(r)
             => /\ Outcome(r)
                /\ Has(hist[r].events, "ok", 1) => hist[r].cleanups = 1)
    /\ [][\A r \in Runs :
             /\ Outcome(r) => run'[r].result = run[r].result
             /\ (~Outcome(r) /\ Outcome(r)')
                  => settings' = run[r].original]_vars

\* a run whose ingestion failed has ended with an error, after a cleanup
\* that failed, while the run called after it is still at work
C33_Witness_FailedRunEnded ==
    /\ Finished(1)
    /\ run[1].result.kind = "raise"
    /\ FailedAt(1, 5)
    /\ hist[1].cleanups = 1
    /\ run[1].repo_path \in dirs
    /\ run[2].pc \notin {"idle", "done"}

\* --------------------------------------- an LLM provider that is not usable

\* the vector-DB provider selected for run r resolves, the LLM provider
\* does not
OnlyLlmUnresolvable(r) ==
    /\ get_vector_database_provider(
           vdbProviders, Selected(r).vector_db_provider).kind = "return"
    /\ get_llm_provider(llmProviders, Selected(r).llm_provider).kind = "raise"

\* C34: a run whose vector-DB provider is usable and whose LLM provider is
\* unsupported or not configured never returns, never raises LLMError and
\* never starts stage 6; when it reaches stage 5, stages 1-4 have all
\* completed and stage 5 fails with VectorDatabaseError, caused by the error
\* of get_llm_provider.
C34_UnusableLlmFailsInIngest ==
    \A r \in Runs :
        (run[r].pc # "idle" /\ OnlyLlmUnresolvable(r)) =>
            /\ run[r].result.kind # "return"
            /\ run[r].result.type # "LLMError"
            /\ ~Started(r, 6)
            /\ Started(r, 5) =>
                  /\ \A k \in 1..4 : Has(hist[r].events, "ok", k)
                  /\ FailedAt(r, 5)
                  /\ run[r].result.type = "VectorDatabaseError"
                  /\ hist[r].cause =
                        get_llm_provider(llmProviders, Selected(r).llm_provider)

\* a run with a usable vector-DB provider and an unregistered LLM provider
\* has failed in stage 5
C34_Witness_UnsupportedLlmReachedIngest ==
    \E r \in Runs :
        /\ Finished(r)
        /\ OnlyLlmUnresolvable(r)
        /\ run[r].llm_provider = "cohere"
        /\ FailedAt(r, 5)
        /\ run[r].result.type = "VectorDatabaseError"

\* ------------------------------------- what a resolved LLM provider gives

\* C35: a provider that get_llm_provider returned supplies its chat model
\* and its embeddings without raising, and so does every name that the
\* list of configured providers holds.
C35_ResolvedProviderSuppliesBoth ==
    /\ call.op \in {"get_llm", "get_embeddings"} => call.ret.kind = "return"
    /\ call.op = "llm_get_configured_providers"
         => \A n \in Range(call.ret.value) :
               /\ get_llm(Provider(llmProviders, n), NoFault).kind = "return"
               /\ get_embeddings(Provider(llmProviders, n), NoFault).kind
                     = "return"

\* ------------------------------------- repositories do not see each other

\* the files of docs/repositories written by the saves under repo_name: its
\* artifacts and its marker
OwnFiles(repos, repo_name) ==
    [n \in ArtifactsOf(repos, repo_name)
            \cup ({LatestLink(repo_name)} \cap DOMAIN repos) |-> repos[n]]

\* C36: what getLatest(r) returns is decided by the files saved under
\* exactly r: it is what the call returns when the files of every other
\* repository are taken away, and it is absent when no file of r is stored.
C36_GetLatestOwnNameOnly ==
    storeCall.op = "get" =>
        LET r == storeCall.repo_name
            own == OwnFiles(reposDir, r)
        IN  /\ storeCall.ret
                  = get_documentation_by_repo([Fs EXCEPT !.repos = own], r)
            /\ DOMAIN own = {} => storeCall.ret = Nothing

\* --------------------------------------------- a marker write that fails

\* C37: a save whose marker write failed (the marker does not name the file
\* the save returned) has returned the names of its artifact and sidecar,
\* both are stored, and a marker that existed holds what it held before.
C37_FailedMarkerWriteKeepsMarker ==
    [][(storeCall'.op = "save" /\ instant' # instant)
       => LET ret == storeCall'.ret
              link == LatestLink(storeCall'.repo_name)
              written ==
                  /\ link \in DOMAIN reposDir'
                  /\ MarkerTarget(reposDir', storeCall'.repo_name)
                        = ret.value.doc_filename
          IN  /\ ret.kind = "return"
              /\ ret.value.doc_filename \in DOMAIN reposDir'
              /\ ret.value.metadata_filename \in DOMAIN metadataDir'
              /\ (~written /\ link \in DOMAIN reposDir)
                   => /\ link \in DOMAIN reposDir'
                      /\ reposDir'[link].content = reposDir[link].content]_vars

\* ------------------------------------------------- a save, write by write

\* the writes a save has made: none, the artifact, the sidecar, the marker
SavingOps == <<"saving", "saving.doc", "saving.metadata", "save">>

\* the storage as it was when the save in progress began
FsAtBegin ==
    [repos |-> storeCall.before.repos, meta |-> storeCall.before.meta,
     instant |-> instant - InstantsPerSave, linesep |-> linesep]

\* save_documentation is called, dt seconds after the last save: the
\* timestamp and generated_at are read
SaveBegin(repo_name, documentation, dt) ==
    /\ storeCall.op \notin {"saving", "saving.doc", "saving.metadata"}
    /\ instant < MaxSaves * InstantsPerSave
    /\ instant' = instant + InstantsPerSave
    /\ clock' = clock + dt
    /\ storeCall' = StoreCall("saving", repo_name, documentation, 0, NoCall,
                              [repos |-> reposDir, meta |-> metadataDir])
    /\ UNCHANGED <<reposDir, metadataDir>>
    /\ StoreFrame

\* the n-th write of the save in progress
SaveWrite(n) ==
    /\ storeCall.op = SavingOps[n]
    /\ LET out == save_documentation_upto(FsAtBegin, storeCall.repo_name,
                                          storeCall.documentation,
                                          SomeMetadata, clock, n)
       IN  /\ reposDir' = out.repos
           /\ metadataDir' = out.meta
    /\ storeCall' =
          [storeCall EXCEPT
              !.op = SavingOps[n + 1],
              !.ret = IF n < 3 THEN NoCall
                      ELSE Return([doc_filename |->
                                       DocFilename(storeCall.repo_name,
                                                   Timestamp(clock)),
                                   metadata_filename |->
                                       MetadataFilename(storeCall.repo_name,
                                                        Timestamp(clock))])]
    /\ UNCHANGED <<instant, clock>>
    /\ StoreFrame

\* the process is stopped while a save is in progress; the files stay
Interrupt ==
    /\ storeCall.op \in {"saving", "saving.doc", "saving.metadata"}
    /\ storeCall' = [storeCall EXCEPT !.op = "interrupted"]
    /\ UNCHANGED <<reposDir, metadataDir, instant, clock>>
    /\ StoreFrame

NextSaveSteps ==
    \/ \E repo_name \in RepoNames, documentation \in Bodies, dt \in {0, 1} :
          SaveBegin(repo_name, documentation, dt)
    \/ \E n \in 1..3 : SaveWrite(n)
    \/ Interrupt

SpecSaveSteps == InitConcurrent /\ [][NextSaveSteps]_vars

\* the last save wrote its artifact / its sidecar / the marker
BodyWritten ==
    LET f == DocFilename(storeCall.repo_name, Timestamp(clock))
    IN  /\ f \in DOMAIN reposDir
        /\ reposDir[f].mtime = FsAtBegin.instant + 2
SidecarWritten ==
    LET m == MetadataFilename(storeCall.repo_name, Timestamp(clock))
    IN  /\ m \in DOMAIN metadataDir
        /\ metadataDir[m].generated_at.t = FsAtBegin.instant + 1
MarkerWritten ==
    LET l == LatestLink(storeCall.repo_name)
    IN  /\ l \in DOMAIN reposDir
        /\ reposDir[l].mtime = FsAtBegin.instant + 3

\* C38: at every point of a save, interrupted or not, the sidecar of the
\* save is written only when its artifact is, the marker is written only
\* when both are, and a save that returned has written all three as
\* save_documentation does.
C38_WritesInOrder ==
    storeCall.op # "none" =>
        /\ SidecarWritten => BodyWritten
        /\ MarkerWritten => (BodyWritten /\ SidecarWritten)
        /\ storeCall.op = "save" =>
              /\ MarkerWritten
              /\ [repos |-> reposDir, meta |-> metadataDir]
                   = [f \in {"repos", "meta"} |->
                        save_documentation(FsAtBegin, storeCall.repo_name,
                                           storeCall.documentation,
                                           SomeMetadata, clock,
                                           NoSaveFault).fs[f]]

\* a save was interrupted between its first and its second write, in the
\* second in which an earlier save of the repository had completed
C38_Witness_InterruptedAfterBody ==
    /\ storeCall.op = "interrupted"
    /\ BodyWritten
    /\ ~SidecarWritten
    /\ ~MarkerWritten
    /\ LatestLink(storeCall.repo_name) \in DOMAIN reposDir
    /\ MetadataFilename(storeCall.repo_name, Timestamp(clock))
          \in DOMAIN metadataDir

\* ------------------------------------- concurrent runs of the same task

\* NumRuns calls of generate_documentation with the same task identifier
\* and the same repository; clone and cleanup may fail
NextSameTask ==
    \E r \in Runs :
        \/ /\ MayStart(r)
           /\ \E o \in FewOverrides :
                 Start(r, RepoName, TaskIdOf(1), o.vector_db_provider,
                       o.llm_provider, NoFault)
        \/ \E fault \in FewFaults : CloneDone(r, fault, GoodSnapshot)
        \/ ChunkDone(r, GoodLoads, NoFault, NoFault)
        \/ InitDone(r, NoFault, NoFault)
        \/ IngestDone(r, NoFault)
        \/ BuildRun(r, NoFault, NoFault)
        \/ BuildDone(r)
        \/ \E doc \in PlainDocuments :
              GenerateDone(r, NoFault, NoFault, doc, 1, NoSaveFault)
        \/ \E fault \in FewFaults : CleanupDone(r, fault)

SpecSameTask == InitConcurrent /\ [][NextSameTask]_vars

\* run r is between its call and its finally block
AtWork(r) == run[r].pc \notin {"idle", "cleanup", "done"}

\* C39: the temporary directories of two runs are different and neither
\* lies inside the other; the directory a run is given did not exist before
\* the call; and while a run is at work its temporary directory and its
\* clone exist, whatever the other runs clean up.
C39_OwnWorkspacePerRun ==
    /\ [](\A r \in Runs :
             /\ \A q \in Runs \ {r} :
                   (run[r].temp_dir # NoPath /\ run[q].temp_dir # NoPath)
                   => ~IsPrefix(run[r].temp_dir, run[q].temp_dir)
             /\ AtWork(r)
                  => /\ run[r].temp_dir \in dirs
                     /\ run[r].repo_path # NoPath => run[r].repo_path \in dirs)
    /\ [][\A r \in Runs :
             (run[r].temp_dir = NoPath /\ run'[r].temp_dir # NoPath)
             => run'[r].temp_dir \notin dirs]_vars

\* two runs of the same task: the first has ended and its clone is
\* removed, the second is at work on its own clone
C39_Witness_CleanupBesideRunAtWork ==
    /\ run[1].task_id = run[2].task_id
    /\ Finished(1)
    /\ run[1].repo_path # NoPath
    /\ run[1].repo_path \notin dirs
    /\ AtWork(2)
    /\ run[2].repo_path \in dirs

====
